---- MODULE Spec2Model ----
(***************************************************************************)
(* A model of spack's CI pipeline generation:                              *)
(*   lib/spack/spack/ci/common.py   PipelineDag, SpackCIConfig             *)
(*   lib/spack/spack/ci/__init__.py prune_pipeline                         *)
(*   lib/spack/spack/ci/gitlab.py   generate_gitlab_yaml                   *)
(*   lib/spack/spack/schema/__init__.py merge_yaml                         *)
(***************************************************************************)
EXTENDS Integers, Sequences, FiniteSets, TLC

\* ------------------------------------------------------------------ bounds
\* Largest number of specs (graph nodes) of a pipeline.
MaxNodes == 3

\* Node keys (dag hashes): distinct, totally ordered values.
Keys == 1..MaxNodes

\* Spec names, ordered; two specs may share a name (same package, two hashes).
Names == {1, 2}

\* Largest number of filters handed to prune_pipeline, and of specs of the
\* pipelines it is run on.
MaxFilters == 2
MaxPruneNodes == 2

\* Largest number of keys of a map and of elements of a sequence handed to
\* merge_yaml.
MaxDictLen == 2
MaxListLen == 2

\* Largest number of sections of the user's pipeline-gen list.
MaxUserSections == 2

VARIABLES
    nodes,          \* PipelineDag.nodes: the keys of the node map
    parents,        \* PipelineNode.parents, per key of the node map
    children,       \* PipelineNode.children, per key of the node map
    name,           \* spec.name of each node's spec
    built,          \* the children relation of the graph as built (history)
    pruned,         \* keys prune() was called with (history)
    pc,             \* position of the caller
    direction,      \* traverse_nodes: its argument
    out_edges,      \* traverse_nodes: sorted out-edges per key
    num_in_edges,   \* traverse_nodes: remaining in-edges per key
    queue,          \* traverse_nodes: the deque `nodes`, left end first
    yielded,        \* traverse_nodes: the (depth, key) pairs yielded so far
    pruning_filters,\* prune_pipeline: the number of filters in its list
    reasons,        \* prune_pipeline: per visited key, the filters' decisions
    keys_to_prune,  \* prune_pipeline: keys some filter voted against
    keys_to_rebuild,\* prune_pipeline: keys every filter voted for
    dest,           \* merge_yaml: its argument dest
    source,         \* merge_yaml: its argument source
    prepend,        \* merge_yaml: its argument prepend
    append,         \* merge_yaml: its argument append
    merged,         \* merge_yaml: the value it returned
    pipeline_gen,   \* SpackCIConfig.ci_config["pipeline-gen"]: the user's sections
    jobs,           \* SpackCIConfig.ir["jobs"]: spec and attributes per job
    options,        \* generate_gitlab_yaml: the PipelineOptions it is given
    output_object,  \* generate_gitlab_yaml: the document being assembled
    stage_names,    \* generate_gitlab_yaml: the stage names, in order
    job_id,         \* generate_gitlab_yaml: the number of jobs generated
    error,          \* the exception that ended generate_gitlab_yaml, if any
    output_file,    \* the file generate_gitlab_yaml writes
    manifest_file,  \* the file write_pipeline_manifest writes
    requests        \* generate_ir: the dynamic-mapping requests sent so far

dagVars == <<nodes, parents, children, name, built, pruned>>
travVars == <<direction, out_edges, num_in_edges, queue, yielded>>
ppVars == <<pruning_filters, reasons, keys_to_prune, keys_to_rebuild>>
mergeVars == <<dest, source, prepend, append, merged>>
emitVars == <<options, output_object, stage_names, job_id, error, output_file,
              manifest_file>>
irVars == <<pipeline_gen, jobs, requests, emitVars>>
vars == <<nodes, parents, children, name, built, pruned, pc,
          direction, out_edges, num_in_edges, queue, yielded,
          pruning_filters, reasons, keys_to_prune, keys_to_rebuild,
          dest, source, prepend, append, merged, pipeline_gen, jobs,
          options, output_object, stage_names, job_id, error, output_file,
          manifest_file, requests>>

\* ------------------------------------------------------------- graph helpers
\* The keys reachable from `frontier` along one or more edges of ch.
RECURSIVE ReachFrom(_, _, _)
ReachFrom(ch, frontier, seen) ==
    LET nxt == UNION {ch[k] : k \in frontier \cap DOMAIN ch} \ seen
    IN  IF nxt = {} THEN seen ELSE ReachFrom(ch, nxt, seen \cup nxt)

Descendants(ch, u) == ReachFrom(ch, {u}, {})

Acyclic(ch) == \A u \in DOMAIN ch : u \notin Descendants(ch, u)

\* The parents relation that mirrors a children relation.
ParentsOf(ch) == [c \in DOMAIN ch |-> {p \in DOMAIN ch : c \in ch[p]}]

\* PipelineDag.__init__: one node per spec reachable from the roots, and for
\* every dependency edge parent.children gets the child, child.parents the parent.
\* The dependency relation of concrete specs is acyclic.
BuiltGraphs ==
    UNION {{ch \in [1..n -> SUBSET (1..n)] : Acyclic(ch)} : n \in 0..MaxNodes}

\* ------------------------------------------------------------------- prune
\* Children sets after prune(node_key): every parent loses the edge to the
\* node and gains the node's children; the node is deleted.
PruneChildren_NoReconnect(ch, pa, node_key) ==
    [k \in DOMAIN ch \ {node_key} |->
        IF k \in pa[node_key] THEN ch[k] \ {node_key} ELSE ch[k]]

PruneChildren(ch, pa, node_key) ==
    [k \in DOMAIN ch \ {node_key} |->
        IF k \in pa[node_key]
        THEN (ch[k] \ {node_key}) \cup ch[node_key]
        ELSE ch[k]]

\* Parents sets after prune(node_key): every child loses the edge to the
\* node and gains the node's parents; the node is deleted.
PruneParents_NoReconnect(ch, pa, node_key) ==
    [k \in DOMAIN pa \ {node_key} |->
        IF k \in ch[node_key] THEN pa[k] \ {node_key} ELSE pa[k]]

PruneParents(ch, pa, node_key) ==
    [k \in DOMAIN pa \ {node_key} |->
        IF k \in ch[node_key]
        THEN (pa[k] \ {node_key}) \cup pa[node_key]
        ELSE pa[k]]

\* ---------------------------------------------------------- traverse_nodes
get_in_edges(d, k) == IF d = "children" THEN parents[k] ELSE children[k]
get_out_edges(d, k) == IF d = "children" THEN children[k] ELSE parents[k]

\* sorted(S, key=spec name): every order of S that ascends by name; keys of
\* equal name keep the iteration order of the set, which is not fixed.
SortedByName(S) ==
    {s \in [1..Cardinality(S) -> S] :
        /\ \A i, j \in DOMAIN s : i # j => s[i] # s[j]
        /\ \A i, j \in DOMAIN s : i < j => name[s[i]] <= name[s[j]]}

\* The out_edges dictionaries the comprehension over self.nodes can build:
\* for every key of S one sorted list of its out-edges.
RECURSIVE OutEdgeChoices(_, _)
OutEdgeChoices(d, S) ==
    IF S = {} THEN {<<>>}
    ELSE LET k == CHOOSE x \in S : TRUE
         IN  {f @@ (k :> s) : f \in OutEdgeChoices(d, S \ {k}),
                              s \in SortedByName(get_out_edges(d, k))}

\* sorted(...) followed by pop() from the left end.
RECURSIVE SortedByKey_Descending(_)
SortedByKey_Descending(S) ==
    IF S = {} THEN <<>>
    ELSE LET m == CHOOSE x \in S : \A y \in S : x >= y
         IN  <<<<0, m>>>> \o SortedByKey_Descending(S \ {m})

\* sorted([(0, key) ...], key=item[1]): ascending by key.
RECURSIVE SortedByKey(_)
SortedByKey(S) ==
    IF S = {} THEN <<>>
    ELSE LET m == CHOOSE x \in S : \A y \in S : x <= y
         IN  <<<<0, m>>>> \o SortedByKey(S \ {m})

\* The loop over out_edges[n_key]: one in-edge less for each m, and m joins
\* the left end of the deque when none is left.
RECURSIVE ReleaseOut_Eager(_, _, _, _)
ReleaseOut_Eager(oe, nie, q, depth) ==
    IF oe = <<>> THEN <<nie, q>>
    ELSE LET m == Head(oe)
             nie2 == [nie EXCEPT ![m] = @ - 1]
             q2 == <<<<depth + 1, m>>>> \o q
         IN  ReleaseOut_Eager(Tail(oe), nie2, q2, depth)

RECURSIVE ReleaseOut(_, _, _, _)
ReleaseOut(oe, nie, q, depth) ==
    IF oe = <<>> THEN <<nie, q>>
    ELSE LET m == Head(oe)
             nie2 == [nie EXCEPT ![m] = @ - 1]
             q2 == IF nie2[m] = 0 THEN <<<<depth + 1, m>>>> \o q ELSE q
         IN  ReleaseOut(Tail(oe), nie2, q2, depth)

\* --------------------------------------------------------------- merge_yaml
\* YAML values: None, strings (sequences of characters), other scalars,
\* lists, and dicts in insertion order. A dict entry carries its key, the
\* key's directive (plain "merge", "override" for `::`, "prepend" for `+:`,
\* "append" for `-:`) and its value.
None == [t |-> "none", e |-> <<>>]
Str(chars) == [t |-> "str", e |-> chars]
Num(n) == [t |-> "num", e |-> <<n>>]
List(elems) == [t |-> "list", e |-> elems]
Dict(entries) == [t |-> "dict", e |-> entries]
Entry(key, directive, value) == [k |-> key, d |-> directive, v |-> value]

\* override(sk), _prepend(sk), _append(sk): the attribute of the key.
override(entry) == entry.d = "override"
_prepend(entry) == entry.d = "prepend"
_append(entry) == entry.d = "append"

\* x in list
InSeq(x, seq) == \E i \in DOMAIN seq : seq[i] = x

\* sk in dest, dest[sk]
HasKey(entries, key) == \E i \in DOMAIN entries : entries[i].k = key
Lookup(entries, key) == entries[CHOOSE i \in DOMAIN entries : entries[i].k = key].v

\* they_are(t)
they_are(t, d, s) == d.t = t /\ s.t = t

\* they_are(list): [x for x in dest if x not in source], before or after source.
MergeLists_KeepAll(d, s, app) ==
    IF app THEN d \o s ELSE s \o d

MergeLists(d, s, app) ==
    LET kept == SelectSeq(d, LAMBDA x : ~InSeq(x, s))
    IN  IF app THEN kept \o s ELSE s \o kept

\* they_are(dict): the order of the keys of the result. The source keys are
\* popped and inserted again in source order, then the keys only dest has are
\* popped and inserted again in their order.
DictKeyOrder_DestFirst(d, s) ==
    [i \in 1..Len(SelectSeq(d, LAMBDA en : ~HasKey(s, en.k))) |->
        SelectSeq(d, LAMBDA en : ~HasKey(s, en.k))[i].k]
    \o [i \in 1..Len(s) |-> s[i].k]

DictKeyOrder(d, s) ==
    [i \in 1..Len(s) |-> s[i].k]
    \o [i \in 1..Len(SelectSeq(d, LAMBDA en : ~HasKey(s, en.k))) |->
            SelectSeq(d, LAMBDA en : ~HasKey(s, en.k))[i].k]

\* merge_yaml(dest, source, prepend, append)
RECURSIVE merge_yaml(_, _, _, _)
merge_yaml(d, s, pre, app) ==
    IF s.t = "none" THEN None
    ELSE IF they_are("list", d, s) THEN List(MergeLists(d.e, s.e, app))
    ELSE IF they_are("dict", d, s) THEN
        LET order == DictKeyOrder(d.e, s.e)
            value(key) ==
                IF HasKey(s.e, key)
                THEN LET se == s.e[CHOOSE i \in DOMAIN s.e : s.e[i].k = key]
                     IN  IF HasKey(d.e, key) /\ ~override(se)
                         THEN Entry(key, se.d,
                                    merge_yaml(Lookup(d.e, key), se.v, _prepend(se), _append(se)))
                         ELSE se
                ELSE d.e[CHOOSE i \in DOMAIN d.e : d.e[i].k = key]
        IN  Dict([i \in DOMAIN order |-> value(order[i])])
    ELSE IF they_are("str", d, s) /\ pre THEN Str(s.e \o d.e)
    ELSE IF they_are("str", d, s) /\ app THEN Str(d.e \o s.e)
    ELSE s

\* The keys of a dict, in order.
KeysOf(v) == [i \in DOMAIN v.e |-> v.e[i].k]

\* Sequences of at most n elements of S.
SeqsUpTo(S, n) == UNION {[1..m -> S] : m \in 0..n}

\* Sequences with no element twice.
Distinct(seq) == \A i, j \in DOMAIN seq : i # j => seq[i] # seq[j]

\* The keys, characters and values the merges are run on.
DictKeys == {"k1", "k2", "k3"}
Directives == {"merge", "override", "prepend", "append"}
ListElems == {Str(<<"a">>), Str(<<"b">>), Str(<<"c">>)}
DestLeaves == {Str(<<"d">>), List(<<Str(<<"d">>)>>)}
SourceLeaves == {Str(<<"s">>), List(<<Str(<<"s">>)>>)}

DestDicts ==
    {Dict(en) : en \in {x \in SeqsUpTo([k : DictKeys, d : {"merge"}, v : DestLeaves], MaxDictLen) :
                            Distinct([i \in DOMAIN x |-> x[i].k])}}
SourceDicts ==
    {Dict(en) : en \in {x \in SeqsUpTo([k : DictKeys, d : Directives, v : SourceLeaves], MaxDictLen) :
                            Distinct([i \in DOMAIN x |-> x[i].k])}}
Lists == {List(l) : l \in SeqsUpTo(ListElems, MaxListLen)}
Scalars ==
    {None, Str(<<"d">>), Str(<<"s">>), Num(1), List(<<Str(<<"a">>)>>),
     Dict(<<Entry("k1", "merge", Dict(<<Entry("k2", "merge", Str(<<"d">>))>>))>>),
     Dict(<<Entry("k1", "merge", Dict(<<Entry("k3", "prepend", Str(<<"s">>)),
                                        Entry("k2", "append", Str(<<"s">>))>>))>>)}

\* ------------------------------------------------------------------ actions
InitDag ==
    /\ \E ch \in BuiltGraphs :
        /\ children = ch
        /\ parents = ParentsOf(ch)
        /\ nodes = DOMAIN ch
        /\ built = ch
        /\ name \in [DOMAIN ch -> Names]
    /\ pruned = {}

InitTrav ==
    /\ direction = "none"
    /\ out_edges = <<>>
    /\ num_in_edges = <<>>
    /\ queue = <<>>
    /\ yielded = <<>>

InitPrunePipeline ==
    /\ pruning_filters = 0
    /\ reasons = <<>>
    /\ keys_to_prune = {}
    /\ keys_to_rebuild = {}

\* No merge_yaml call is in progress.
InitNoMerge ==
    /\ dest = None
    /\ source = None
    /\ prepend = FALSE
    /\ append = FALSE
    /\ merged = None

\* No SpackCIConfig has been constructed.
\* generate_gitlab_yaml has not been called.
NoOptions ==
    [pipeline_type |-> "None", rebuild_index |-> TRUE,
     mirrors_for_spec |-> FALSE, buildcache_source |-> FALSE,
     copy_buildcache |-> FALSE]
NoFile == [written |-> FALSE, doc |-> <<>>]
NoManifest == [written |-> FALSE, specs |-> {}]
InitNoEmit ==
    /\ options = NoOptions
    /\ output_object = <<>>
    /\ stage_names = <<>>
    /\ job_id = 0
    /\ error = "none"
    /\ output_file = NoFile
    /\ manifest_file = NoManifest

InitNoConfig ==
    /\ pipeline_gen = <<>>
    /\ jobs = <<>>
    /\ requests = <<>>
    /\ InitNoEmit

Init ==
    /\ InitDag
    /\ InitTrav
    /\ InitPrunePipeline
    /\ InitNoMerge
    /\ InitNoConfig
    /\ pc = "idle"

\* PipelineDag.prune(node_key), for a key of the graph. A finished traversal's
\* result describes the graph before the prune and is dropped.
Prune(node_key) ==
    /\ pc \in {"idle", "done"}
    /\ node_key \in nodes
    /\ children' = PruneChildren(children, parents, node_key)
    /\ parents' = PruneParents(children, parents, node_key)
    /\ nodes' = nodes \ {node_key}
    /\ pruned' = pruned \cup {node_key}
    /\ pc' = "idle"
    /\ direction' = "none"
    /\ out_edges' = <<>>
    /\ num_in_edges' = <<>>
    /\ queue' = <<>>
    /\ yielded' = <<>>
    /\ UNCHANGED <<name, built, ppVars, mergeVars, irVars>>

\* traverse_nodes(direction) up to its loop.
TraverseStart(d) ==
    /\ pc \in {"idle", "done"}
    /\ direction' = d
    /\ out_edges' \in OutEdgeChoices(d, nodes)
    /\ num_in_edges' = [k \in nodes |-> Cardinality(get_in_edges(d, k))]
    /\ queue' = SortedByKey({k \in nodes : get_in_edges(d, k) = {}})
    /\ yielded' = <<>>
    /\ pc' = "traversing"
    /\ UNCHANGED <<dagVars, ppVars, mergeVars, irVars>>

\* One turn of the loop: pop the right end, yield it, release its out-edges.
TraverseYield ==
    /\ pc = "traversing"
    /\ queue # <<>>
    /\ LET item == queue[Len(queue)]
           depth == item[1]
           n_key == item[2]
           rest == SubSeq(queue, 1, Len(queue) - 1)
           r == ReleaseOut(out_edges[n_key], num_in_edges, rest, depth)
       IN  /\ yielded' = Append(yielded, item)
           /\ num_in_edges' = r[1]
           /\ queue' = r[2]
    /\ UNCHANGED <<dagVars, direction, out_edges, pc, ppVars, mergeVars, irVars>>

\* The deque is empty: the generator is exhausted.
TraverseDone ==
    /\ pc = "traversing"
    /\ queue = <<>>
    /\ pc' = "done"
    /\ UNCHANGED <<dagVars, travVars, ppVars, mergeVars, irVars>>

\* ----------------------------------------------------------- prune_pipeline
\* A RebuildDecision of filter i: its vote and the reason that goes with it.
RebuildDecision(i, rebuild) == [rebuild |-> rebuild, reason |-> <<i, rebuild>>]

\* all(r.rebuild for r in filter_results)
AllRebuild_Any(filter_results) ==
    \E i \in DOMAIN filter_results : filter_results[i].rebuild

AllRebuild(filter_results) ==
    \A i \in DOMAIN filter_results : filter_results[i].rebuild

\* The filters asked up to the first that votes against the rebuild.
FilterResults_UntilFalse(votes) ==
    LET last == IF \A i \in DOMAIN votes : votes[i] THEN Len(votes)
                ELSE CHOOSE i \in DOMAIN votes :
                        ~votes[i] /\ \A j \in 1..(i - 1) : votes[j]
    IN  [i \in 1..last |-> RebuildDecision(i, votes[i])]

\* [keepSpec(node.spec) for keepSpec in pruning_filters], the filters voting
\* as votes says.
FilterResults(votes) ==
    [i \in DOMAIN votes |-> RebuildDecision(i, votes[i])]

\* prune_pipeline(pipeline, pruning_filters) on the graph as built, up to its
\* first loop: the children-direction traversal starts.
PrunePipelineStart(nf) ==
    /\ pc = "idle"
    /\ pruned = {}
    /\ pruning_filters' = nf
    /\ reasons' = <<>>
    /\ keys_to_prune' = {}
    /\ keys_to_rebuild' = {}
    /\ direction' = "children"
    /\ out_edges' \in OutEdgeChoices("children", nodes)
    /\ num_in_edges' = [k \in nodes |-> Cardinality(get_in_edges("children", k))]
    /\ queue' = SortedByKey({k \in nodes : get_in_edges("children", k) = {}})
    /\ yielded' = <<>>
    /\ pc' = "pp_traverse"
    /\ UNCHANGED <<dagVars, mergeVars, irVars>>

\* One turn of the first loop: the traversal yields a node, every filter is
\* asked about its spec, the reasons are recorded and the key is put on one
\* of the two lists.
PrunePipelineVisit ==
    /\ pc = "pp_traverse"
    /\ queue # <<>>
    /\ LET item == queue[Len(queue)]
           depth == item[1]
           n_key == item[2]
           rest == SubSeq(queue, 1, Len(queue) - 1)
           r == ReleaseOut(out_edges[n_key], num_in_edges, rest, depth)
       IN  /\ yielded' = Append(yielded, item)
           /\ num_in_edges' = r[1]
           /\ queue' = r[2]
           /\ \E votes \in [1..pruning_filters -> BOOLEAN] :
                LET filter_results == FilterResults(votes)
                IN  /\ reasons' = reasons @@
                            (n_key :> [i \in DOMAIN filter_results |-> filter_results[i].reason])
                    /\ IF ~AllRebuild(filter_results)
                       THEN /\ keys_to_prune' = keys_to_prune \cup {n_key}
                            /\ keys_to_rebuild' = keys_to_rebuild
                       ELSE /\ keys_to_rebuild' = keys_to_rebuild \cup {n_key}
                            /\ keys_to_prune' = keys_to_prune
    /\ UNCHANGED <<dagVars, direction, out_edges, pc, pruning_filters, mergeVars, irVars>>

\* The traversal is exhausted: the second loop begins.
PrunePipelineTraversed ==
    /\ pc = "pp_traverse"
    /\ queue = <<>>
    /\ pc' = "pp_prune"
    /\ UNCHANGED <<dagVars, travVars, ppVars, mergeVars, irVars>>

\* One turn of the second loop, over the set keys_to_prune in any order.
PrunePipelinePrune(key) ==
    /\ pc = "pp_prune"
    /\ key \in keys_to_prune \cap nodes
    /\ children' = PruneChildren(children, parents, key)
    /\ parents' = PruneParents(children, parents, key)
    /\ nodes' = nodes \ {key}
    /\ pruned' = pruned \cup {key}
    /\ UNCHANGED <<name, built, travVars, ppVars, pc, mergeVars, irVars>>

\* Every key of keys_to_prune has been pruned: prune_pipeline returns.
PrunePipelineReturn ==
    /\ pc = "pp_prune"
    /\ keys_to_prune \cap nodes = {}
    /\ pc' = "pp_done"
    /\ UNCHANGED <<dagVars, travVars, ppVars, mergeVars, irVars>>

NextPrunePipeline ==
    \/ \E nf \in 0..MaxFilters : PrunePipelineStart(nf)
    \/ PrunePipelineVisit
    \/ PrunePipelineTraversed
    \/ \E k \in Keys : PrunePipelinePrune(k)
    \/ PrunePipelineReturn

PrunePipelineInit ==
    /\ Init
    /\ Cardinality(nodes) <= MaxPruneNodes

SpecPrunePipeline == PrunePipelineInit /\ [][NextPrunePipeline]_vars

Next ==
    \/ \E k \in Keys : Prune(k)
    \/ \E d \in {"children", "parents"} : TraverseStart(d)
    \/ TraverseYield
    \/ TraverseDone

Spec == Init /\ [][Next]_vars

\* ------------------------------------------------------ merge_yaml: callers
\* A caller is about to merge source into dest: two flat dicts; or two
\* one-key dicts that hold any two values under the same key, the source key
\* with any directive; or any two values that are not both dicts, in any mode.
InitMerge ==
    /\ \/ /\ dest \in DestDicts
          /\ source \in SourceDicts
          /\ prepend = FALSE /\ append = FALSE
       \/ /\ \E dv \in Lists \cup Scalars : dest = Dict(<<Entry("k1", "merge", dv)>>)
          /\ \E sv \in Lists \cup Scalars, dir \in Directives :
                source = Dict(<<Entry("k1", dir, sv)>>)
          /\ prepend = FALSE /\ append = FALSE
       \/ /\ dest \in Lists \cup Scalars
          /\ source \in Lists \cup Scalars
          /\ \E mode \in {<<FALSE, FALSE>>, <<TRUE, FALSE>>, <<FALSE, TRUE>>} :
                prepend = mode[1] /\ append = mode[2]
    /\ merged = None
    /\ pc = "merge"

\* No graph has been built.
InitNoDag ==
    /\ nodes = {}
    /\ parents = <<>>
    /\ children = <<>>
    /\ name = <<>>
    /\ built = <<>>
    /\ pruned = {}

\* dest = merge_yaml(dest, source, prepend, append)
MergeYaml ==
    /\ pc = "merge"
    /\ merged' = merge_yaml(dest, source, prepend, append)
    /\ pc' = "merged"
    /\ UNCHANGED <<dagVars, travVars, ppVars, dest, source, prepend, append, irVars>>

NextMerge == MergeYaml

MergeInit ==
    /\ InitNoDag
    /\ InitTrav
    /\ InitPrunePipeline
    /\ InitNoConfig
    /\ InitMerge

SpecMerge == MergeInit /\ [][NextMerge]_vars

\* ------------------------------------------------------------ SpackCIConfig
\* Keys of ir["jobs"]: the names of the named jobs and the dag hashes.
NamedJob(n) == <<"named", n>>
SpecJob(k) == <<"spec", k>>

named_jobs == <<"any", "build", "copy", "cleanup", "noop", "reindex", "signing">>

SPACK_RESERVED_TAGS == <<Str(<<"public">>), Str(<<"protected">>), Str(<<"notary">>)>>

\* job["spec"]: "" for a named job, the spec of a build job, and its name
\* once generate_ir has detached the spec.
NoSpec == [kind |-> "none", of |-> 0]
TheSpec(k) == [kind |-> "spec", of |-> k]
SpecName(n) == [kind |-> "name", of |-> n]

\* __init_job(release_spec)
init_job(release_spec) ==
    IF release_spec.kind = "none"
    THEN [spec |-> release_spec, attributes |-> Dict(<<>>)]
    ELSE [spec |-> release_spec,
          attributes |-> Dict(<<Entry("variables", "merge", Dict(<<
              Entry("SPACK_JOB_SPEC_DAG_HASH", "merge", Num(release_spec.of)),
              Entry("SPACK_JOB_SPEC_PKG_NAME", "merge", Num(name[release_spec.of]))>>))>>)]

\* SpackCIConfig.__init__: a job for every named job but "any" and "build".
ConfigJobs ==
    [j \in {NamedJob(named_jobs[i]) : i \in {x \in DOMAIN named_jobs :
                                              named_jobs[x] \notin {"any", "build"}}}
        |-> init_job(NoSpec)]

\* spack.config.remove_yaml(dest, source): source's list elements leave dest,
\* and in a dict every key of source that dest has is popped and, unless it
\* is tagged override, put back with source's value removed from its own.
RECURSIVE remove_yaml(_, _)
remove_yaml(d, s) ==
    IF s.t = "none" THEN d
    ELSE IF they_are("list", d, s) THEN List(SelectSeq(d.e, LAMBDA x : ~InSeq(x, s.e)))
    ELSE IF they_are("dict", d, s) THEN
        LET untouched == SelectSeq(d.e, LAMBDA en : ~HasKey(s.e, en.k))
            hit == SelectSeq(s.e, LAMBDA se : HasKey(d.e, se.k) /\ ~override(se))
        IN  Dict(untouched \o
                 [i \in DOMAIN hit |->
                    Entry(hit[i].k, hit[i].d, remove_yaml(Lookup(d.e, hit[i].k), hit[i].v))])
    ELSE d

\* A named section of pipeline-gen: {"<name>-job": merge, "<name>-job-remove":
\* remove}, either part optional, the keys of both bodies already carrying
\* their directives (_process_dict_keyname_overrides).
NamedSection(n, has_merge, merge_body, has_remove, remove_body) ==
    [kind |-> "named", name |-> n,
     do_merge |-> has_merge, merge |-> merge_body,
     do_remove |-> has_remove, remove |-> remove_body]
MergeSection(n, body) == NamedSection(n, TRUE, body, FALSE, Dict(<<>>))
RemoveSection(n, body) == NamedSection(n, FALSE, Dict(<<>>), TRUE, body)

DefaultBuildScript ==
    List(<<Str(<<"cd ", "{env_dir}">>),
           Str(<<"spack env activate --without-view .">>),
           Str(<<"spack ci rebuild">>)>>)
DefaultNoopScript ==
    List(<<Str(<<"echo \"All specs already up to date, nothing to rebuild.\"">>)>>)
ReindexScript ==
    List(<<Str(<<"spack buildcache update-index --keys ", "{index_target_mirror}">>)>>)
CleanupScript ==
    List(<<Str(<<"spack -d mirror destroy {mirror_prefix}/$CI_PIPELINE_ID">>)>>)
SigningTags == List(<<Str(<<"aws">>), Str(<<"protected">>), Str(<<"notary">>)>>)

\* generate_ir: defaults
defaults ==
    <<MergeSection("build", Dict(<<Entry("script", "merge", DefaultBuildScript)>>)),
      MergeSection("noop", Dict(<<Entry("script", "merge", DefaultNoopScript)>>))>>

\* generate_ir: overrides without the removal of the reserved tags.
overrides_KeepReserved ==
    <<MergeSection("reindex", Dict(<<Entry("script", "override", ReindexScript)>>)),
      MergeSection("cleanup", Dict(<<Entry("script", "override", CleanupScript)>>)),
      MergeSection("signing", Dict(<<Entry("tags", "merge", SigningTags)>>)),
      MergeSection("any", Dict(<<>>))>>

\* generate_ir: overrides
overrides ==
    <<MergeSection("reindex", Dict(<<Entry("script", "override", ReindexScript)>>)),
      MergeSection("cleanup", Dict(<<Entry("script", "override", CleanupScript)>>)),
      MergeSection("signing", Dict(<<Entry("tags", "merge", SigningTags)>>)),
      RemoveSection("any", Dict(<<Entry("tags", "merge", List(SPACK_RESERVED_TAGS))>>))>>

\* pipeline_gen = overrides + self.ci_config.get("pipeline-gen", []) + defaults
PipelineGen_UserFirst(user) == user \o overrides \o defaults
PipelineGen_DefaultsFirst(user) == defaults \o overrides \o user

PipelineGen(user) == overrides \o user \o defaults

\* _apply_section(dest, src): remove_yaml and merge_yaml change the dict dest
\* in place when their source is a dict, and leave it alone otherwise.
_apply_section(attrs, section) ==
    LET removed == IF section.do_remove /\ section.remove.t = "dict"
                   THEN remove_yaml(attrs, section.remove) ELSE attrs
    IN  IF section.do_merge /\ they_are("dict", removed, section.merge)
        THEN merge_yaml(removed, section.merge, FALSE, FALSE)
        ELSE removed

\* The jobs a named section applies to: every job with a spec for "build",
\* every job for "any", the named job otherwise.
AppliesTo(js, section, j) ==
    IF section.name = "build" THEN js[j].spec.kind # "none"
    ELSE IF section.name = "any" THEN TRUE
    ELSE j = NamedJob(section.name)

\* A submapping section of pipeline-gen: {"match_behavior": behavior,
\* "submapping": [{"match": [...], "build-job": merge, "build-job-remove":
\* remove}, ...]}, either body of a rule optional.
SubmappingSection(behavior, rules) ==
    [kind |-> "submapping", match_behavior |-> behavior, submapping |-> rules]
MatchAttrs(match_strings, has_merge, merge_body, has_remove, remove_body) ==
    [match |-> match_strings,
     do_merge |-> has_merge, merge |-> merge_body,
     do_remove |-> has_remove, remove |-> remove_body]

\* _spec_matches(spec, match_string), for match strings that name a package.
_spec_matches(k, match_string) == name[k] = match_string

\* __apply_submapping(dest, spec, section): the rules from the last to the
\* first; a rule one of whose match strings the spec matches is applied once,
\* and under match_behavior "first" no further rule is looked at.
RECURSIVE ApplyRules(_, _, _, _, _)
ApplyRules(d, k, rules, only_first, matched) ==
    IF rules = <<>> THEN d
    ELSE LET match_attrs == rules[Len(rules)]
             hit == \E i \in DOMAIN match_attrs.match :
                        _spec_matches(k, match_attrs.match[i])
             removed == IF hit /\ match_attrs.do_remove
                        THEN remove_yaml(d, match_attrs.remove) ELSE d
             applied == IF hit /\ match_attrs.do_merge
                        THEN merge_yaml(removed, match_attrs.merge, FALSE, FALSE)
                        ELSE removed
         IN  IF (matched \/ hit) /\ only_first THEN applied
             ELSE ApplyRules(applied, k, SubSeq(rules, 1, Len(rules) - 1),
                             only_first, matched \/ hit)

\* section.get("match_behavior", "first"), a section without the key having
\* Absent for it.
Absent == "absent"
match_behavior(section) ==
    IF section.match_behavior = Absent THEN "first" ELSE section.match_behavior

\* __apply_submapping with every matching rule applied, whatever the
\* match_behavior.
apply_submapping_EveryMatch(d, k, section) ==
    ApplyRules(d, k, section.submapping, FALSE, FALSE)

apply_submapping(d, k, section) ==
    ApplyRules(d, k, section.submapping, match_behavior(section) = "first", FALSE)

\* One turn of the loop of generate_ir over the sections.
ApplySection(js, section) ==
    [j \in DOMAIN js |->
        IF section.kind = "named" /\ AppliesTo(js, section, j)
        THEN [js[j] EXCEPT !.attributes = _apply_section(@, section)]
        ELSE IF section.kind = "submapping" /\ js[j].spec.kind = "spec"
        THEN [js[j] EXCEPT !.attributes = apply_submapping(@, js[j].spec.of, section)]
        ELSE js[j]]

\* for section in reversed(pipeline_gen)
RECURSIVE ApplyInOrder(_, _)
ApplyInOrder(js, sections) ==
    IF sections = <<>> THEN js
    ELSE ApplyInOrder(ApplySection(js, Head(sections)), Tail(sections))

RECURSIVE ApplyReversed(_, _)
ApplyReversed(js, sections) ==
    IF sections = <<>> THEN js
    ELSE ApplyReversed(ApplySection(js, sections[Len(sections)]),
                       SubSeq(sections, 1, Len(sections) - 1))

\* generate_ir(): every section applied, then every job's spec replaced by
\* its name.
generate_ir(js, user) ==
    LET applied == ApplyReversed(js, PipelineGen(user))
    IN  [j \in DOMAIN applied |->
            IF applied[j].spec.kind = "spec"
            THEN [applied[j] EXCEPT !.spec = SpecName(name[@.of])]
            ELSE applied[j]]

\* The sections a user declares: the i-th sets the script or the tags of one
\* job name, with any directive, to a string or a list of its own.
UserValue(ty, i) ==
    IF ty = "str" THEN Str(<<"u" \o ToString(i)>>)
    ELSE List(<<Str(<<"u" \o ToString(i)>>)>>)
UserTargets ==
    {<<"build", "script">>, <<"build", "tags">>, <<"any", "script">>, <<"any", "tags">>,
     <<"reindex", "script">>, <<"noop", "script">>, <<"signing", "tags">>}
UserSections(i) ==
    {MergeSection(tg[1], Dict(<<Entry(tg[2], dir, UserValue(ty, i))>>)) :
        tg \in UserTargets, dir \in Directives, ty \in {"str", "list"}}

\* A pipeline of two specs, the first depending on the second, has been
\* built, and SpackCIConfig(ci_config) constructed.
ConfigInit ==
    /\ nodes = {1, 2}
    /\ children = <<{2}, {}>>
    /\ parents = <<{}, {1}>>
    /\ built = children
    /\ name = <<1, 2>>
    /\ pruned = {}
    /\ InitTrav
    /\ InitPrunePipeline
    /\ InitNoMerge
    /\ pipeline_gen = <<>>
    /\ jobs = ConfigJobs
    /\ requests = <<>>
    /\ InitNoEmit
    /\ pc = "config"

\* The ci configuration declares one more pipeline-gen section.
DeclareSection(section) ==
    /\ pc = "config"
    /\ Len(pipeline_gen) < MaxUserSections
    /\ pipeline_gen' = Append(pipeline_gen, section)
    /\ UNCHANGED <<dagVars, travVars, ppVars, mergeVars, jobs, pc, requests, emitVars>>

\* init_pipeline_jobs(pipeline): a job for every node of the pipeline.
InitPipelineJobs ==
    /\ pc = "config"
    /\ jobs' = [j \in DOMAIN jobs \cup {SpecJob(k) : k \in nodes} |->
                    IF j \in DOMAIN jobs THEN jobs[j] ELSE init_job(TheSpec(j[2]))]
    /\ pc' = "jobs"
    /\ UNCHANGED <<dagVars, travVars, ppVars, mergeVars, pipeline_gen, requests, emitVars>>

\* generate_ir()
GenerateIR ==
    /\ pc = "jobs"
    /\ jobs' = generate_ir(jobs, pipeline_gen)
    /\ pc' = "ir"
    /\ UNCHANGED <<dagVars, travVars, ppVars, mergeVars, pipeline_gen, requests, emitVars>>

NextConfig ==
    \/ \E section \in UserSections(Len(pipeline_gen) + 1) : DeclareSection(section)
    \/ InitPipelineJobs
    \/ GenerateIR

SpecConfig == ConfigInit /\ [][NextConfig]_vars

\* ---------------------------------------------------- generate_gitlab_yaml
Bool(b) == [t |-> "bool", e |-> <<b>>]

\* d[key] = value and d.get(key, default) on a dict.
SetItem(d, key, value) ==
    IF HasKey(d.e, key)
    THEN Dict([i \in DOMAIN d.e |->
                  IF d.e[i].k = key THEN Entry(key, d.e[i].d, value) ELSE d.e[i]])
    ELSE Dict(Append(d.e, Entry(key, "merge", value)))
GetItem(d, key, default) == IF HasKey(d.e, key) THEN Lookup(d.e, key) ELSE default

\* Iterating a value: the elements of a list, the characters of a string.
Iterate(v) == IF v.t = "str" THEN [i \in DOMAIN v.e |-> Str(<<v.e[i]>>)] ELSE v.e

RECURSIVE Concat(_)
Concat(seqs) == IF seqs = <<>> THEN <<>> ELSE Head(seqs) \o Concat(Tail(seqs))

\* All the orders a set can be iterated in.
Orders(S) ==
    {s \in [1..Cardinality(S) -> S] : \A i, j \in DOMAIN s : i # j => s[i] # s[j]}

JOB_RETRY_CONDITIONS ==
    List(<<Str(<<"unknown_failure">>), Str(<<"script_failure">>), Str(<<"api_failure">>),
           Str(<<"stuck_or_timeout_failure">>), Str(<<"runner_system_failure">>),
           Str(<<"runner_unsupported">>), Str(<<"stale_schedule">>),
           Str(<<"archived_failure">>), Str(<<"unmet_prerequisites">>),
           Str(<<"scheduler_failure">>), Str(<<"data_integrity_failure">>)>>)

\* _remove_reserved_tags(tags)
_remove_reserved_tags(tags) ==
    List(SelectSeq(Iterate(tags), LAMBDA tag : ~InSeq(tag, SPACK_RESERVED_TAGS)))

\* get_job_name(spec, build_group) without a build group: the spec's name and
\* hash formatted by JOB_NAME_FORMAT; the cut at 255 characters is beyond the
\* length of these names.
get_job_name(k) == "pkg" \o ToString(name[k]) \o " /" \o ToString(k)

\* The environment and path values generate_gitlab_yaml starts from, with
\* CI_JOB_NAME and CI_PIPELINE_ID unset and the default artifacts root.
generate_job_name == "job-does-not-exist"
generate_pipeline_id == "pipeline-does-not-exist"
artifacts_root == "jobs_scratch_dir"
rel_concrete_env_dir == "jobs_scratch_dir/concrete_environment"
rel_job_log_dir == "jobs_scratch_dir/logs"
rel_job_repro_dir == "jobs_scratch_dir/reproduction"
rel_job_test_dir == "jobs_scratch_dir/tests"
rel_user_artifacts_dir == "jobs_scratch_dir/user_data"
target_mirror == "push_url"

\* cmd.replace(placeholder, value) on a command.
Replace(cmd, placeholder, value) ==
    IF cmd.t = "str"
    THEN Str([i \in DOMAIN cmd.e |-> IF cmd.e[i] = placeholder THEN value ELSE cmd.e[i]])
    ELSE cmd
main_script_replacements(cmd) == Replace(cmd, "{env_dir}", rel_concrete_env_dir)
index_script_replacements(cmd) == Replace(cmd, "{index_target_mirror}", target_mirror)
_noop(x) == x

\* op(cmd), for the op that unpack_script is given by name.
Call(op, cmd) ==
    IF op = "main_script_replacements" THEN main_script_replacements(cmd)
    ELSE IF op = "index_script_replacements" THEN index_script_replacements(cmd)
    ELSE _noop(cmd)

\* unpack_script without its inner loop: a nested list stays one element.
unpack_script_NoFlatten(script_section, op) ==
    LET cmds == Iterate(script_section)
    IN  List([i \in DOMAIN cmds |-> Call(op, cmds[i])])

\* unpack_script(script_section, op): the commands of the section, those of a
\* nested list in its place, each passed through op.
unpack_script(script_section, op) ==
    LET cmds == Iterate(script_section)
    IN  List(Concat([i \in DOMAIN cmds |->
                IF cmds[i].t = "list"
                THEN [j \in DOMAIN cmds[i].e |-> Call(op, cmds[i].e[j])]
                ELSE <<Call(op, cmds[i])>>]))

\* ensure_expected_target_path(path)
ensure_expected_target_path(path) == Replace(path, "\\", "/")

\* The traversal direction of the per-node loop.
EmitDirection_Children == "children"

EmitDirection == "parents"

\* The loop body of generate_gitlab_yaml up to the script check: the tags of
\* a typed pipeline lose the reserved tags and gain the type's own.
TaggedJob(job_object) ==
    IF options.pipeline_type = "None" THEN job_object
    ELSE LET stripped == _remove_reserved_tags(GetItem(job_object, "tags", List(<<>>)))
         IN  SetItem(job_object, "tags",
                IF options.pipeline_type = "PROTECTED_BRANCH"
                THEN List(Append(stripped.e, Str(<<"protected">>)))
                ELSE IF options.pipeline_type = "PULL_REQUEST"
                THEN List(Append(stripped.e, Str(<<"public">>)))
                ELSE stripped)

\* The scripts of the job unpacked.
ScriptedJob(job_object) ==
    LET main == SetItem(job_object, "script",
                    unpack_script(Lookup(job_object.e, "script"), "main_script_replacements"))
        before == IF HasKey(main.e, "before_script")
                  THEN SetItem(main, "before_script",
                            unpack_script(Lookup(main.e, "before_script"), "_noop"))
                  ELSE main
    IN  IF HasKey(before.e, "after_script")
        THEN SetItem(before, "after_script",
                  unpack_script(Lookup(before.e, "after_script"), "_noop"))
        ELSE before

\* job_object["needs"]: one entry per node of dep_nodes, then the generator's.
NeedOf(dep_node) ==
    Dict(<<Entry("job", "merge", Str(<<get_job_name(dep_node)>>)),
           Entry("artifacts", "merge", Bool(FALSE))>>)
GeneratorNeed ==
    Dict(<<Entry("job", "merge", Str(<<generate_job_name>>)),
           Entry("pipeline", "merge", Str(<<generate_pipeline_id>>))>>)
NeedsJob(job_object, dep_nodes) ==
    SetItem(job_object, "needs",
        List(Append([i \in DOMAIN dep_nodes |-> NeedOf(dep_nodes[i])], GeneratorNeed)))

\* The rest of the loop body: the rebuild flag, the artifacts, the stage, the
\* retry policy.
DecoratedJob(job_object, stage_name) ==
    LET job_vars == SetItem(Lookup(job_object.e, "variables"), "SPACK_SPEC_NEEDS_REBUILD",
                        Str(<<IF options.mirrors_for_spec THEN "False" ELSE "True">>))
        with_vars == SetItem(job_object, "variables", job_vars)
        artifacts == merge_yaml(GetItem(with_vars, "artifacts", Dict(<<>>)),
                        Dict(<<Entry("when", "merge", Str(<<"always">>)),
                               Entry("paths", "merge",
                                   List(<<Str(<<rel_job_log_dir>>), Str(<<rel_job_repro_dir>>),
                                          Str(<<rel_job_test_dir>>),
                                          Str(<<rel_user_artifacts_dir>>)>>))>>),
                        FALSE, FALSE)
        with_artifacts == SetItem(with_vars, "artifacts", artifacts)
        staged == SetItem(with_artifacts, "stage", Str(<<stage_name>>))
        retried == SetItem(staged, "retry",
                      Dict(<<Entry("max", "merge", Num(2)),
                             Entry("when", "merge", JOB_RETRY_CONDITIONS)>>))
    IN  SetItem(retried, "interruptible", Bool(TRUE))

\* The pipelines generate_gitlab_yaml is asked for.
EmitOptions ==
    {[pipeline_type |-> "None", rebuild_index |-> TRUE,
      mirrors_for_spec |-> FALSE, buildcache_source |-> FALSE, copy_buildcache |-> FALSE],
     [pipeline_type |-> "PROTECTED_BRANCH", rebuild_index |-> FALSE,
      mirrors_for_spec |-> TRUE, buildcache_source |-> FALSE, copy_buildcache |-> FALSE],
     [pipeline_type |-> "COPY_ONLY", rebuild_index |-> TRUE,
      mirrors_for_spec |-> FALSE, buildcache_source |-> TRUE, copy_buildcache |-> FALSE],
     [pipeline_type |-> "COPY_ONLY", rebuild_index |-> TRUE,
      mirrors_for_spec |-> FALSE, buildcache_source |-> FALSE, copy_buildcache |-> FALSE]}

\* The user's pipeline-gen lists of the pipelines that are emitted: empty; a
\* submapping that removes the script and the variables of the specs of one
\* package; a submapping that removes their script and sets their tags.
RemoveAllOfPackage ==
    SubmappingSection("first", <<MatchAttrs(<<1>>, FALSE, Dict(<<>>), TRUE,
        Dict(<<Entry("script", "override", List(<<>>)),
               Entry("variables", "override", Dict(<<>>))>>))>>)
RemoveScriptOfPackage ==
    SubmappingSection("merge", <<MatchAttrs(<<1>>, TRUE,
        Dict(<<Entry("tags", "merge", List(<<Str(<<"public">>), Str(<<"large">>)>>))>>),
        TRUE, Dict(<<Entry("script", "override", List(<<>>))>>))>>)
EmitConfigs == {<<>>, <<RemoveAllOfPackage>>, <<RemoveScriptOfPackage>>}

\* SpackCIConfig(ci_config), once the pipeline has been pruned.
NewConfig(user) ==
    /\ pc = "idle"
    /\ pipeline_gen' = user
    /\ jobs' = ConfigJobs
    /\ pc' = "config"
    /\ UNCHANGED <<dagVars, travVars, ppVars, mergeVars, requests, emitVars>>

\* generate_gitlab_yaml after generate_ir, up to its loop over the nodes: no
\* loop for a copy-only pipeline, the parents-direction traversal otherwise.
EmitStart(opts) ==
    /\ pc = "ir"
    /\ options' = opts
    /\ output_object' = <<>>
    /\ stage_names' = <<>>
    /\ job_id' = 0
    /\ yielded' = <<>>
    /\ IF opts.pipeline_type = "COPY_ONLY"
       THEN /\ direction' = "none"
            /\ out_edges' = <<>>
            /\ num_in_edges' = <<>>
            /\ queue' = <<>>
       ELSE /\ direction' = EmitDirection
            /\ out_edges' \in OutEdgeChoices(EmitDirection, nodes)
            /\ num_in_edges' = [k \in nodes |-> Cardinality(get_in_edges(EmitDirection, k))]
            /\ queue' = SortedByKey({k \in nodes : get_in_edges(EmitDirection, k) = {}})
    /\ pc' = "emitting"
    /\ UNCHANGED <<dagVars, ppVars, mergeVars, pipeline_gen, jobs, requests, error,
                   output_file, manifest_file>>

\* `not job_object` taken for "no script in job_object".
NoMatch_NoScript(job_object) == ~HasKey(job_object.e, "script")

\* `if not job_object`: the attributes are an empty dict.
NoMatch(job_object) == job_object.e = <<>>

\* One turn of the loop: the traversal yields (level, node); the job of the
\* node is skipped when it has no attributes, the call is over when it has
\* no script (or no variables), and otherwise the job is completed in place
\* and put in the document under its name.
EmitJob ==
    /\ pc = "emitting"
    /\ queue # <<>>
    /\ LET item == queue[Len(queue)]
           level == item[1]
           n_key == item[2]
           rest == SubSeq(queue, 1, Len(queue) - 1)
           r == ReleaseOut(out_edges[n_key], num_in_edges, rest, level)
           stage_name == "stage-" \o ToString(level)
           job_object == jobs[SpecJob(n_key)].attributes
           tagged == TaggedJob(job_object)
       IN  /\ yielded' = Append(yielded, item)
           /\ num_in_edges' = r[1]
           /\ queue' = r[2]
           /\ stage_names' = IF InSeq(stage_name, stage_names) THEN stage_names
                             ELSE Append(stage_names, stage_name)
           /\ IF NoMatch(job_object)
              THEN UNCHANGED <<jobs, output_object, job_id, error, pc>>
              ELSE IF ~HasKey(tagged.e, "script")
              THEN /\ jobs' = [jobs EXCEPT ![SpecJob(n_key)].attributes = tagged]
                   /\ error' = "AttributeError"
                   /\ pc' = "emit_error"
                   /\ UNCHANGED <<output_object, job_id>>
              ELSE \E dep_nodes \in Orders(children[n_key]) :
                    LET needing == NeedsJob(ScriptedJob(tagged), dep_nodes)
                    IN  IF ~HasKey(needing.e, "variables")
                        THEN /\ jobs' = [jobs EXCEPT ![SpecJob(n_key)].attributes = needing]
                             /\ error' = "KeyError"
                             /\ pc' = "emit_error"
                             /\ UNCHANGED <<output_object, job_id>>
                        ELSE LET done == DecoratedJob(needing, stage_name)
                             IN  /\ jobs' = [jobs EXCEPT ![SpecJob(n_key)].attributes = done]
                                 /\ output_object' =
                                        (get_job_name(n_key) :> done) @@ output_object
                                 /\ job_id' = job_id + 1
                                 /\ UNCHANGED <<error, pc>>
    /\ UNCHANGED <<dagVars, direction, out_edges, ppVars, mergeVars, pipeline_gen,
                   requests, options, output_file, manifest_file>>

\* The copy job of a copy-only pipeline.
CopyJob ==
    LET sync_job == jobs[NamedJob("copy")].attributes
        staged == SetItem(sync_job, "stage", Str(<<"copy">>))
        needing == SetItem(staged, "needs", List(<<GeneratorNeed>>))
        job_vars == SetItem(SetItem(GetItem(needing, "variables", Dict(<<>>)),
                                "SPACK_COPY_ONLY_DESTINATION", Str(<<"fetch_url">>)),
                            "SPACK_BUILDCACHE_SOURCE", Str(<<"source_fetch_url">>))
    IN  SetItem(SetItem(needing, "variables", job_vars), "dependencies", List(<<>>))

\* The test for the signing job without the pipeline type.
external_signing_AnyType ==
    HasKey(jobs[NamedJob("signing")].attributes.e, "script")

\* "script" in spack_ci_ir["jobs"]["signing"]["attributes"] and
\* options.pipeline_type == PipelineType.PROTECTED_BRANCH
external_signing ==
    /\ HasKey(jobs[NamedJob("signing")].attributes.e, "script")
    /\ options.pipeline_type = "PROTECTED_BRANCH"

\* The signing job of a protected-branch pipeline.
SigningJob ==
    LET signing_job == jobs[NamedJob("signing")].attributes
        scripted == SetItem(signing_job, "script",
                        unpack_script(Lookup(signing_job.e, "script"), "_noop"))
        staged == SetItem(scripted, "stage", Str(<<"stage-sign-pkgs">>))
        always == SetItem(staged, "when", Str(<<"always">>))
        retried == SetItem(always, "retry",
                      Dict(<<Entry("max", "merge", Num(2)),
                             Entry("when", "merge", List(<<Str(<<"always">>)>>))>>))
        inter == SetItem(retried, "interruptible", Bool(TRUE))
        job_vars == SetItem(GetItem(inter, "variables", Dict(<<>>)),
                        "SPACK_BUILDCACHE_DESTINATION", Str(<<target_mirror>>))
    IN  SetItem(SetItem(inter, "variables", job_vars), "dependencies", List(<<>>))

\* The job that rebuilds the index of the mirror.
service_job_retries ==
    Dict(<<Entry("max", "merge", Num(2)),
           Entry("when", "merge",
               List(<<Str(<<"runner_system_failure">>), Str(<<"stuck_or_timeout_failure">>),
                      Str(<<"script_failure">>)>>))>>)
ReindexJob ==
    LET final_job == jobs[NamedJob("reindex")].attributes
        staged == SetItem(final_job, "stage", Str(<<"stage-rebuild-index">>))
        scripted == SetItem(staged, "script",
                        unpack_script(Lookup(staged.e, "script"), "index_script_replacements"))
        always == SetItem(scripted, "when", Str(<<"always">>))
        retried == SetItem(always, "retry", service_job_retries)
        inter == SetItem(retried, "interruptible", Bool(TRUE))
    IN  SetItem(inter, "dependencies", List(<<>>))

\* The no-op job with the retries of a service job.
NoopJob_Retried ==
    SetItem(jobs[NamedJob("noop")].attributes, "retry", service_job_retries)

\* The job of a pipeline without jobs.
NoopJob ==
    SetItem(SetItem(jobs[NamedJob("noop")].attributes, "retry", Num(0)),
            "allow_failure", Bool(TRUE))

\* output_object["variables"], for the options' defaults: up-to-date pruning
\* on, untouched pruning off, no signing required, no stack name.
OutputVariables ==
    LET output_vars ==
            <<Entry("SPACK_ARTIFACTS_ROOT", "merge", Str(<<artifacts_root>>)),
              Entry("SPACK_CONCRETE_ENV_DIR", "merge", Str(<<rel_concrete_env_dir>>)),
              Entry("SPACK_VERSION", "merge", Str(<<"spack_version">>)),
              Entry("SPACK_CHECKOUT_VERSION", "merge", Str(<<"version_to_clone">>)),
              Entry("SPACK_JOB_LOG_DIR", "merge", Str(<<rel_job_log_dir>>)),
              Entry("SPACK_JOB_REPRO_DIR", "merge", Str(<<rel_job_repro_dir>>)),
              Entry("SPACK_JOB_TEST_DIR", "merge", Str(<<rel_job_test_dir>>)),
              Entry("SPACK_PIPELINE_TYPE", "merge", Str(<<options.pipeline_type>>)),
              Entry("SPACK_CI_STACK_NAME", "merge", Str(<<"None">>)),
              Entry("SPACK_REBUILD_CHECK_UP_TO_DATE", "merge", Str(<<"True">>)),
              Entry("SPACK_REBUILD_EVERYTHING", "merge", Str(<<"False">>)),
              Entry("SPACK_REQUIRE_SIGNING", "merge", Str(<<"False">>))>>
    IN  Dict([i \in DOMAIN output_vars |->
                Entry(output_vars[i].k, "merge", ensure_expected_target_path(output_vars[i].v))])

workflow == Dict(<<Entry("rules", "merge",
                List(<<Dict(<<Entry("when", "merge", Str(<<"always">>))>>)>>))>>)

\* maybe_generate_manifest(pipeline, options, manifest_path): with
\* SPACK_COPY_BUILDCACHE set the manifest is written, for the specs of the
\* environment in a copy-only pipeline and for those of the pipeline otherwise.
maybe_generate_manifest ==
    IF options.copy_buildcache
    THEN [written |-> TRUE,
          specs |-> IF options.pipeline_type = "COPY_ONLY" THEN DOMAIN built ELSE nodes]
    ELSE manifest_file

\* generate_gitlab_yaml after its loop: the manifest; the copy job of a
\* copy-only pipeline (the call is
\* over when no mirror is named buildcache-source); with a job
\* generated, the signing job, the index job, the stages and the variables,
\* and the no-op job alone otherwise; the workflow; the document written
\* with its keys sorted.
EmitFinish ==
    /\ pc = "emitting"
    /\ queue = <<>>
    /\ manifest_file' = maybe_generate_manifest
    /\ IF options.pipeline_type = "COPY_ONLY" /\ ~options.buildcache_source
       THEN /\ error' = "SpackCIError"
            /\ pc' = "emit_error"
            /\ stage_names' = Append(stage_names, "copy")
            /\ UNCHANGED <<jobs, output_object, job_id, output_file>>
       ELSE LET copy_only == options.pipeline_type = "COPY_ONLY"
                names1 == IF copy_only THEN Append(stage_names, "copy") ELSE stage_names
                out1 == IF copy_only THEN ("copy" :> CopyJob) @@ output_object
                        ELSE output_object
                id1 == IF copy_only THEN job_id + 1 ELSE job_id
                signing == id1 > 0 /\ external_signing
                reindex == id1 > 0 /\ options.rebuild_index
                names2 == IF signing THEN Append(names1, "stage-sign-pkgs") ELSE names1
                names3 == IF reindex THEN Append(names2, "stage-rebuild-index") ELSE names2
                out2 == IF signing THEN ("sign-pkgs" :> SigningJob) @@ out1 ELSE out1
                out3 == IF reindex THEN ("rebuild-index" :> ReindexJob) @@ out2 ELSE out2
                out4 == IF id1 > 0
                        THEN ("stages" :> List([i \in DOMAIN names3 |-> Str(<<names3[i]>>)]))
                             @@ ("variables" :> OutputVariables) @@ out3
                        ELSE ("no-specs-to-rebuild" :> NoopJob)
                out5 == ("workflow" :> workflow) @@ out4
            IN  /\ stage_names' = names3
                /\ job_id' = id1
                /\ jobs' = [j \in DOMAIN jobs |->
                              IF j = NamedJob("signing") /\ signing
                              THEN [jobs[j] EXCEPT !.attributes = SigningJob]
                              ELSE IF j = NamedJob("reindex") /\ reindex
                              THEN [jobs[j] EXCEPT !.attributes = ReindexJob]
                              ELSE IF j = NamedJob("noop") /\ id1 = 0
                              THEN [jobs[j] EXCEPT !.attributes = NoopJob]
                              ELSE jobs[j]]
                /\ output_object' = out5
                /\ output_file' = [written |-> TRUE, doc |-> out5]
                /\ pc' = "emitted"
                /\ UNCHANGED error
    /\ UNCHANGED <<dagVars, travVars, ppVars, mergeVars, pipeline_gen, requests, options>>

\* A pipeline is built, pruned, configured and emitted.
EmitInit ==
    /\ Init
    /\ name = [k \in DOMAIN built |-> (k % 2) + 1]

NextEmit ==
    \/ \E node_key \in Keys : Prune(node_key)
    \/ \E user \in EmitConfigs : NewConfig(user)
    \/ InitPipelineJobs
    \/ GenerateIR
    \/ \E opts \in EmitOptions : EmitStart(opts)
    \/ EmitJob
    \/ EmitFinish

SpecEmit == EmitInit /\ [][NextEmit]_vars

\* ------------------------------------------------------------ claims: graph
\* C1: after construction and after any prunes of keys of the graph, edges are
\* mutual (c is a child of p exactly when p is a parent of c), no pruned key
\* is in the node map, and no parents or children set names a key outside it.
C1_EdgesMutualNoDangling ==
    /\ DOMAIN children = nodes
    /\ DOMAIN parents = nodes
    /\ pruned \cap nodes = {}
    /\ \A k \in nodes : children[k] \subseteq nodes /\ parents[k] \subseteq nodes
    /\ \A p, c \in nodes : (c \in children[p]) <=> (p \in parents[c])

\* C1 witness: a node with a parent and a child has been pruned.
C1_Witness ==
    \E k \in pruned :
        /\ built[k] \cap nodes # {}
        /\ \E p \in nodes : k \in built[p]

\* C2: between any two surviving nodes, reachability along children edges in
\* the pruned graph is exactly reachability in the graph as built, and the
\* pruned graph is acyclic.
C2_ReachabilityPreserved ==
    /\ Acyclic(children)
    /\ \A u, v \in nodes :
        (v \in Descendants(children, u)) <=> (v \in Descendants(built, u))

\* C2 witness: two survivors are joined by an edge that the built graph did
\* not have, standing for a path through a pruned node.
C2_Witness ==
    \E u, v \in nodes : v \in children[u] /\ v \notin built[u]

\* C4: a traversal never yields a key twice, yields only keys of the graph,
\* yields a node only after all of its in-edge neighbours for the direction,
\* and has yielded every node when its deque runs empty.
C4_TraverseTopological ==
    pc \in {"traversing", "done"} =>
        /\ \A i, j \in DOMAIN yielded : i # j => yielded[i][2] # yielded[j][2]
        /\ \A i \in DOMAIN yielded :
            /\ yielded[i][2] \in nodes
            /\ \A p \in get_in_edges(direction, yielded[i][2]) :
                \E j \in 1..(i - 1) : yielded[j][2] = p
        /\ queue = <<>> => {yielded[i][2] : i \in DOMAIN yielded} = nodes

\* C4 witness: a finished parents-direction traversal of a pruned graph that
\* still has an edge.
C4_Witness ==
    /\ pc = "done"
    /\ direction = "parents"
    /\ pruned # {}
    /\ Len(yielded) >= 2
    /\ \E k \in nodes : children[k] # {}

\* ---------------------------------------------------- claims: prune_pipeline
\* C3: when prune_pipeline returns, the node map holds exactly the nodes of
\* the built graph that every filter voted to rebuild; with no filters it
\* holds every built node.
C3_KeptIffAllRebuild ==
    pc = "pp_done" =>
        /\ nodes = {k \in DOMAIN built :
                        \A i \in 1..pruning_filters : reasons[k][i][2]}
        /\ pruning_filters = 0 => nodes = DOMAIN built

\* C3 witness: two filters disagreed about a node, one voting to keep it and
\* the other to prune it, and prune_pipeline has returned.
C3_Witness ==
    /\ pc = "pp_done"
    /\ pruning_filters = 2
    /\ \E k \in DOMAIN built : reasons[k][1][2] /\ ~reasons[k][2][2]
    /\ nodes # {}

\* -------------------------------------------------------- claims: merge_yaml
\* The keys of a merge of two dicts, as the claim states them: the source keys
\* in source order, then the keys only dest has in their order.
IsScalar(v) == v.t \in {"str", "num"}
SourceThenDestOnly ==
    KeysOf(source) \o SelectSeq(KeysOf(dest), LAMBDA k : ~HasKey(source.e, k))

\* C10 as stated: the keys of the merge of two maps are the source keys in
\* source order followed by the dest-only keys in their order, and for every
\* key of both maps whose dest value is a scalar the result holds the source's
\* value.
C10_Original ==
    (pc = "merged" /\ they_are("dict", dest, source)) =>
        /\ KeysOf(merged) = SourceThenDestOnly
        /\ \A i \in DOMAIN source.e :
            LET se == source.e[i]
            IN  (HasKey(dest.e, se.k) /\ IsScalar(Lookup(dest.e, se.k)))
                    => Lookup(merged.e, se.k) = se.v

\* C10 (amended): the keys of the merge of two maps are the source keys in
\* source order followed by the dest-only keys in their order; for every key
\* of both maps whose dest value is a scalar the result holds the source's
\* value, except that two strings under a source key tagged prepend give
\* source + dest and under a source key tagged append give dest + source.
C10_KeyOrderAndScalars ==
    (pc = "merged" /\ they_are("dict", dest, source)) =>
        /\ KeysOf(merged) = SourceThenDestOnly
        /\ \A i \in DOMAIN source.e :
            LET se == source.e[i]
                dv == Lookup(dest.e, se.k)
            IN  (HasKey(dest.e, se.k) /\ IsScalar(dv)) =>
                    Lookup(merged.e, se.k) =
                        IF they_are("str", dv, se.v) /\ se.d = "prepend"
                        THEN Str(se.v.e \o dv.e)
                        ELSE IF they_are("str", dv, se.v) /\ se.d = "append"
                        THEN Str(dv.e \o se.v.e)
                        ELSE se.v

\* C10 witness: a merge of two maps with two source keys, one of them also in
\* dest with a scalar value, and a key that only dest has.
C10_Witness ==
    /\ pc = "merged"
    /\ they_are("dict", dest, source)
    /\ Len(source.e) = 2
    /\ \E i \in DOMAIN dest.e : HasKey(source.e, dest.e[i].k) /\ IsScalar(dest.e[i].v)
    /\ \E i \in DOMAIN dest.e : ~HasKey(source.e, dest.e[i].k)

\* ------------------------------------------------------- claims: generate_ir
\* The user sections, in declaration order, that set key on job j.
Sets(section, j, key) ==
    /\ section.kind = "named"
    /\ AppliesTo(jobs, section, j)
    /\ section.do_merge
    /\ HasKey(section.merge.e, key)
Setters(j, key) == SelectSeq(pipeline_gen, LAMBDA section : Sets(section, j, key))
SetEntry(section, key) ==
    section.merge.e[CHOOSE i \in DOMAIN section.merge.e : section.merge.e[i].k = key]
Final(j, key) == Lookup(jobs[j].attributes.e, key)
IsPrefix(p, q) == Len(p) <= Len(q) /\ SubSeq(q, 1, Len(p)) = p
IsSuffix(p, q) == Len(p) <= Len(q) /\ SubSeq(q, Len(q) - Len(p) + 1, Len(q)) = p

\* The keys the hard-coded override sections set, with the job of each.
OverrideSets ==
    UNION {{<<NamedJob(overrides[i].name), overrides[i].merge.e[n]>> :
                n \in DOMAIN overrides[i].merge.e} :
            i \in {x \in DOMAIN overrides : overrides[x].do_merge}}

\* C7 as stated: a key of a job that a hard-coded override section and a user
\* section both set holds the override's value in the final IR.
C7_Original ==
    pc = "ir" =>
        \A o \in OverrideSets :
            Setters(o[1], o[2].k) # <<>> => Final(o[1], o[2].k) = o[2].v

\* C7 (amended): a key of a job that a hard-coded override section and a user
\* section both set holds the override's value in the final IR when the
\* override tags the key Override (the script of reindex-job and cleanup-job);
\* for the untagged tags of signing-job the final value is the override's
\* list, or a list that begins with the override's tags and goes on with tags
\* the user sections gave the job.
C7_OverrideWinsOrLeads ==
    pc = "ir" =>
        \A o \in OverrideSets :
            Setters(o[1], o[2].k) # <<>> =>
                \/ Final(o[1], o[2].k) = o[2].v
                \/ /\ ~override(o[2])
                   /\ Final(o[1], o[2].k).t = "list"
                   /\ IsPrefix(o[2].v.e, Final(o[1], o[2].k).e)
                   /\ \A n \in Len(o[2].v.e) + 1 .. Len(Final(o[1], o[2].k).e) :
                        \E i \in DOMAIN Setters(o[1], o[2].k) :
                            LET v == SetEntry(Setters(o[1], o[2].k)[i], o[2].k).v
                            IN  v.t = "list" /\ InSeq(Final(o[1], o[2].k).e[n], v.e)

\* C7 witness: the IR has been generated from a configuration whose second
\* section sets the script of reindex-job and whose first sets the tags of
\* every job, signing-job among them, to a list.
C7_Witness ==
    /\ pc = "ir"
    /\ Len(pipeline_gen) = 2
    /\ Sets(pipeline_gen[2], NamedJob("reindex"), "script")
    /\ pipeline_gen[1].name = "any"
    /\ Sets(pipeline_gen[1], NamedJob("signing"), "tags")
    /\ SetEntry(pipeline_gen[1], "tags").v.t = "list"
    /\ Final(NamedJob("reindex"), "script") = ReindexScript

\* The jobs whose script no override section sets: the build jobs and noop.
ScriptJobs == {SpecJob(k) : k \in nodes} \cup {NamedJob("noop")}

\* C8 as stated: when two user sections set the same key of the same job, the
\* final IR holds the value of the one declared first.
C8_Original ==
    pc = "ir" =>
        \A j \in ScriptJobs :
            Len(Setters(j, "script")) >= 2 =>
                Final(j, "script") = SetEntry(Setters(j, "script")[1], "script").v

\* C8 (amended): when two user sections set the same key of the same job to
\* scalars or lists, and no override section sets or strips that key, the
\* final IR holds the value of the one declared first, except that a first-declared list is merged
\* with a list set by the later sections, its elements coming first (last
\* when its key is tagged Append), and a first-declared string whose key is
\* tagged Prepend or Append is concatenated before or after a string set by
\* the later sections; a key tagged Override always keeps the first-declared
\* value alone.
C8_FirstDeclaredLeads ==
    pc = "ir" =>
        \A j \in ScriptJobs :
            Len(Setters(j, "script")) >= 2 =>
                LET first == SetEntry(Setters(j, "script")[1], "script")
                    final == Final(j, "script")
                IN  \/ final = first.v
                    \/ /\ first.v.t = "list" /\ final.t = "list"
                       /\ first.d \in {"merge", "prepend"}
                       /\ IsPrefix(first.v.e, final.e)
                    \/ /\ first.v.t = "list" /\ final.t = "list"
                       /\ first.d = "append"
                       /\ IsSuffix(first.v.e, final.e)
                    \/ /\ first.v.t = "str" /\ final.t = "str"
                       /\ first.d = "prepend"
                       /\ IsPrefix(first.v.e, final.e)
                    \/ /\ first.v.t = "str" /\ final.t = "str"
                       /\ first.d = "append"
                       /\ IsSuffix(first.v.e, final.e)

\* C8 witness: two user sections set the script of the build jobs to
\* different strings under plain keys, and the final IR holds the first.
C8_Witness ==
    /\ pc = "ir"
    /\ Len(Setters(SpecJob(1), "script")) = 2
    /\ SetEntry(Setters(SpecJob(1), "script")[1], "script").d = "merge"
    /\ SetEntry(Setters(SpecJob(1), "script")[1], "script").v.t = "str"
    /\ SetEntry(Setters(SpecJob(1), "script")[2], "script").v.t = "str"
    /\ Final(SpecJob(1), "script") = SetEntry(Setters(SpecJob(1), "script")[1], "script").v

\* The default script of a job, and whether one of its commands is in a value.
DefaultScript(j) == IF j = NamedJob("noop") THEN DefaultNoopScript ELSE DefaultBuildScript
HasDefault(j, v) ==
    v.t = "list" /\ \E i \in DOMAIN DefaultScript(j).e : InSeq(DefaultScript(j).e[i], v.e)

\* C9 as stated: a default script is in a job's final attributes only when no
\* user section sets the job's script.
C9_Original ==
    pc = "ir" =>
        \A j \in ScriptJobs :
            HasDefault(j, Final(j, "script")) => Setters(j, "script") = <<>>

\* C9 (amended): with user sections that set keys and remove none, the
\* default script is a job's final script when no user section sets the
\* job's script, and it contributes nothing to the final script when some
\* user section sets the script to a value that is no list or under a key
\* tagged Override; when every user section that sets the script sets a list
\* under a key not tagged Override, the whole default script stays in the
\* final list together with the user's commands.
C9_DefaultsKeptByLists ==
    pc = "ir" =>
        \A j \in ScriptJobs :
            LET setters == Setters(j, "script")
                final == Final(j, "script")
                replaces(section) ==
                    \/ SetEntry(section, "script").v.t # "list"
                    \/ override(SetEntry(section, "script"))
            IN  /\ setters = <<>> => final = DefaultScript(j)
                /\ (\E i \in DOMAIN setters : replaces(setters[i]))
                        => ~HasDefault(j, final)
                /\ (setters # <<>> /\ \A i \in DOMAIN setters : ~replaces(setters[i]))
                        => /\ final.t = "list"
                           /\ \A i \in DOMAIN DefaultScript(j).e :
                                InSeq(DefaultScript(j).e[i], final.e)
                           /\ Len(final.e) = Len(DefaultScript(j).e) + Len(setters)

\* C9 witness: the IR has been generated from a configuration in which one
\* section sets the script of noop-job to a string and no section sets the
\* script of the build jobs, which hold the default.
C9_Witness ==
    /\ pc = "ir"
    /\ Len(Setters(NamedJob("noop"), "script")) = 1
    /\ SetEntry(Setters(NamedJob("noop"), "script")[1], "script").v.t = "str"
    /\ ~HasDefault(NamedJob("noop"), Final(NamedJob("noop"), "script"))
    /\ Setters(SpecJob(1), "script") = <<>>
    /\ Final(SpecJob(1), "script") = DefaultBuildScript

\* ------------------------------------------- claims: generate_gitlab_yaml
\* The nodes whose build job is in the document, and what the job says.
EmittedBuildJobs == {k \in DOMAIN built : get_job_name(k) \in DOMAIN output_object}
StageOf(k) == Lookup(output_object[get_job_name(k)].e, "stage")
StageName(n) == Str(<<"stage-" \o ToString(n)>>)
StageNumber(stage) == CHOOSE n \in 0..MaxNodes : stage = StageName(n)
NeedsOf(k) == Lookup(output_object[get_job_name(k)].e, "needs").e
NeededJob(need) == Lookup(need.e, "job")

\* C5: every build job of the document has the stage stage-{depth} of the
\* depth the parents-direction traversal of the pruned graph yielded its node
\* with, so that jobs of nodes of one depth share a stage, and its stage
\* number is greater than that of every build job its needs name.
C5_StageFromDepth ==
    \A k \in EmittedBuildJobs :
        /\ \E i \in DOMAIN yielded :
            yielded[i][2] = k /\ StageOf(k) = StageName(yielded[i][1])
        /\ \A d \in EmittedBuildJobs :
            /\ (\E i, j \in DOMAIN yielded :
                    /\ yielded[i][2] = k /\ yielded[j][2] = d
                    /\ yielded[i][1] = yielded[j][1]) => StageOf(k) = StageOf(d)
            /\ (\E i \in DOMAIN NeedsOf(k) :
                    NeededJob(NeedsOf(k)[i]) = Str(<<get_job_name(d)>>))
                  => StageNumber(StageOf(k)) > StageNumber(StageOf(d))

\* C5 witness: the document of a pruned graph has been written, and in it a
\* job of a later stage needs a job that became its node's child by a prune.
C5_Witness ==
    /\ pc = "emitted"
    /\ pruned # {}
    /\ \E k, d \in EmittedBuildJobs :
        /\ d \in children[k] /\ d \notin built[k]
        /\ StageNumber(StageOf(k)) >= 1
        /\ \E i \in DOMAIN NeedsOf(k) : NeededJob(NeedsOf(k)[i]) = Str(<<get_job_name(d)>>)

\* C6 as stated: in the document written, the needs of every build job have
\* exactly one entry per child of its node in the pruned graph, naming the
\* child's job, and exactly one entry for the generation job, and every
\* entry for a child names a build job of the document.
C6_Original ==
    pc = "emitted" =>
        \A k \in EmittedBuildJobs :
            /\ Len(NeedsOf(k)) = Cardinality(children[k]) + 1
            /\ \A c \in children[k] :
                Cardinality({i \in DOMAIN NeedsOf(k) : NeedsOf(k)[i] = NeedOf(c)}) = 1
            /\ Cardinality({i \in DOMAIN NeedsOf(k) : NeedsOf(k)[i] = GeneratorNeed}) = 1
            /\ \A i \in DOMAIN NeedsOf(k) :
                NeedsOf(k)[i] # GeneratorNeed =>
                    \E d \in DOMAIN built :
                        /\ NeededJob(NeedsOf(k)[i]) = Str(<<get_job_name(d)>>)
                        /\ get_job_name(d) \in DOMAIN output_file.doc

\* ------------------------------------------- claims: merge_yaml on lists
ElemsOf(seq) == {seq[i] : i \in DOMAIN seq}

\* C11: merge_yaml on two lists returns the source elements in order followed
\* by the dest elements that are not in source in their order, and with
\* append those dest elements first and the source elements after them; every
\* element of either input is in the result.
C11_ListMergeOrder ==
    (pc = "merged" /\ they_are("list", dest, source)) =>
        LET from_source == SelectSeq(merged.e, LAMBDA x : x \in ElemsOf(source.e))
            from_dest == SelectSeq(merged.e, LAMBDA x : x \notin ElemsOf(source.e))
        IN  /\ merged.t = "list"
            /\ from_source = source.e
            /\ from_dest = SelectSeq(dest.e, LAMBDA x : x \notin ElemsOf(source.e))
            /\ merged.e = IF append THEN from_dest \o from_source
                          ELSE from_source \o from_dest
            /\ ElemsOf(merged.e) = ElemsOf(dest.e) \cup ElemsOf(source.e)

\* C11 witness: two lists that share an element, dest having one more of its
\* own, have been merged with append.
C11_Witness ==
    /\ pc = "merged"
    /\ they_are("list", dest, source)
    /\ append
    /\ ElemsOf(dest.e) \cap ElemsOf(source.e) # {}
    /\ ElemsOf(dest.e) \ ElemsOf(source.e) # {}
    /\ Len(source.e) = 2

\* ------------------------------------------------ claims: reproducibility
\* C12 as stated: the document written is the same whatever order the sets
\* of the run are iterated in: the needs of every build job are the list any
\* iteration order of its node's children gives, and its stage is fixed by
\* the pruned graph (one more than the stages of the jobs of its children, 0
\* without children).
C12_Original ==
    pc = "emitted" =>
        \A k \in EmittedBuildJobs :
            /\ \A dep_nodes \in Orders(children[k]) :
                Lookup(output_file.doc[get_job_name(k)].e, "needs")
                    = Lookup(NeedsJob(Dict(<<>>), dep_nodes).e, "needs")
            /\ \A n \in 0..MaxNodes :
                StageOf(k) = StageName(n) =>
                    /\ (n = 0) = (children[k] = {})
                    /\ \A c \in children[k] \cap EmittedBuildJobs :
                        StageNumber(StageOf(c)) < n

\* ------------------------------------------- claims: order within one depth
\* The position in the yield order of the node whose release loop queued the
\* node yielded at position i: its in-edge neighbour that was yielded last.
Unlocker(i) ==
    CHOOSE j \in 1..(i - 1) :
        /\ yielded[j][2] \in get_in_edges(direction, yielded[i][2])
        /\ \A l \in (j + 1)..(i - 1) :
            yielded[l][2] \notin get_in_edges(direction, yielded[i][2])

\* C13 as stated: of two nodes yielded with the same depth, the one yielded
\* first never has the greater spec name.
C13_Original ==
    pc \in {"traversing", "done"} =>
        \A i, j \in DOMAIN yielded :
            (i < j /\ yielded[i][1] = yielded[j][1]) =>
                name[yielded[i][2]] <= name[yielded[j][2]]

\* C13: the start nodes at depth 0 are yielded in descending order of key,
\* and two nodes of one greater depth that the same node unlocked are yielded
\* in ascending order of spec name.
C13_OrderWithinDepth ==
    pc \in {"traversing", "done"} =>
        \A i, j \in DOMAIN yielded :
            (i < j /\ yielded[i][1] = yielded[j][1]) =>
                IF yielded[i][1] = 0
                THEN yielded[i][2] > yielded[j][2]
                ELSE Unlocker(i) = Unlocker(j) =>
                        name[yielded[i][2]] <= name[yielded[j][2]]

\* C13 witness: a finished traversal that yielded two start nodes and two
\* nodes of depth 1 with different names unlocked by the same node.
C13_Witness ==
    /\ pc = "done"
    /\ \E i, j \in DOMAIN yielded :
        /\ i < j
        /\ yielded[i][1] = 1
        /\ yielded[j][1] = 1
        /\ Unlocker(i) = Unlocker(j)
        /\ name[yielded[i][2]] # name[yielded[j][2]]

\* C13 witness of the other cases: two start nodes whose names are in
\* descending order of key, so not in ascending order of name.
C13_WitnessStart ==
    /\ pc = "done"
    /\ \E i, j \in DOMAIN yielded :
        /\ i < j
        /\ yielded[i][1] = 0
        /\ yielded[j][1] = 0
        /\ name[yielded[i][2]] > name[yielded[j][2]]

\* ------------------------------------------------------- claims: the depth
\* The length of the longest path that ends in k along the in-edges of
\* direction d.
RECURSIVE LongestPath(_, _)
LongestPath(d, k) ==
    IF get_in_edges(d, k) = {} THEN 0
    ELSE LET below == {LongestPath(d, p) : p \in get_in_edges(d, k)}
         IN  1 + CHOOSE x \in below : \A y \in below : x >= y

\* C14: the depth a traversal yields with a node is 0 when the node has no
\* in-edges for the direction and otherwise one more than the greatest depth
\* of its in-edge neighbours, in both directions.
C14_DepthIsLongestPath ==
    pc \in {"traversing", "done"} =>
        \A i \in DOMAIN yielded :
            yielded[i][1] = LongestPath(direction, yielded[i][2])

\* C14 witness: a finished traversal, in either direction, that yielded a node
\* with depth 2 which also has an in-edge neighbour of depth 0.
C14_Witness ==
    /\ pc = "done"
    /\ \E i, j \in DOMAIN yielded :
        /\ yielded[i][1] = 2
        /\ yielded[j][1] = 0
        /\ yielded[j][2] \in get_in_edges(direction, yielded[i][2])

\* C14 witness for the direction of emission.
C14_WitnessParents ==
    C14_Witness /\ direction = "parents"

\* ------------------------------------------------- pipelines with user tags
\* class PipelineType
PipelineType == {"COPY_ONLY", "PROTECTED_BRANCH", "PULL_REQUEST"}

\* Pipeline-gen sections that give build jobs tags, reserved ones among them:
\* build-job with each directive on the key, any-job, and a submapping for the
\* specs of one package.
TagSections ==
    {MergeSection("build", Dict(<<Entry("tags", dir,
            List(<<Str(<<"public">>), Str(<<"large">>)>>))>>)) : dir \in Directives}
    \cup {MergeSection("any", Dict(<<Entry("tags", "merge",
            List(<<Str(<<"protected">>), Str(<<"x86">>)>>))>>)),
          SubmappingSection("first", <<MatchAttrs(<<1>>, TRUE,
            Dict(<<Entry("tags", "merge", List(<<Str(<<"notary">>), Str(<<"big">>)>>))>>),
            FALSE, Dict(<<>>))>>)}

\* The pipelines of every type, and of none.
TagOptions ==
    {[pipeline_type |-> ty, rebuild_index |-> FALSE,
      mirrors_for_spec |-> FALSE, buildcache_source |-> TRUE,
      copy_buildcache |-> FALSE] :
        ty \in PipelineType \cup {"None"}}

TagsInit == ConfigInit

NextTags ==
    \/ \E section \in TagSections : DeclareSection(section)
    \/ InitPipelineJobs
    \/ GenerateIR
    \/ \E opts \in TagOptions : EmitStart(opts)
    \/ EmitJob
    \/ EmitFinish

SpecTags == TagsInit /\ [][NextTags]_vars

\* ---------------------------------------------------------- claims: tags
\* The reserved tags among the tags of a job of the document, in order.
ReservedTagsOf(job) ==
    SelectSeq(GetItem(job, "tags", List(<<>>)).e,
              LAMBDA tag : InSeq(tag, SPACK_RESERVED_TAGS))

\* The tag the policy of a pipeline type appends.
PolicyTags(ty) ==
    IF ty = "PROTECTED_BRANCH" THEN <<Str(<<"protected">>)>>
    ELSE IF ty = "PULL_REQUEST" THEN <<Str(<<"public">>)>>
    ELSE <<>>

\* C15: in a written document the tags of every build job hold no reserved
\* tag (public, protected, notary) from the configuration: the reserved tags
\* among them are exactly the one the pipeline type's policy appends, protected
\* for a protected-branch pipeline, public for a pull-request pipeline, none
\* otherwise.
C15_ReservedTagsFromPolicyOnly ==
    output_file.written =>
        \A k \in DOMAIN built :
            get_job_name(k) \in DOMAIN output_file.doc =>
                ReservedTagsOf(output_file.doc[get_job_name(k)])
                    = PolicyTags(options.pipeline_type)

\* C15 witness: a pull-request pipeline whose configuration gave the build
\* jobs reserved tags has been written, and a build job carries the tag public
\* and a tag of the configuration.
C15_Witness ==
    /\ output_file.written
    /\ options.pipeline_type = "PULL_REQUEST"
    /\ \E i \in DOMAIN pipeline_gen : pipeline_gen[i] \in TagSections
    /\ \E k \in DOMAIN built :
        /\ get_job_name(k) \in DOMAIN output_file.doc
        /\ LET tags == GetItem(output_file.doc[get_job_name(k)], "tags", List(<<>>)).e
           IN  /\ InSeq(Str(<<"public">>), tags)
               /\ \E i \in DOMAIN tags : ~InSeq(tags[i], SPACK_RESERVED_TAGS)

\* C15 witness for a pipeline of no type: the document has been written, the
\* configuration gave the build jobs reserved tags, and a build job carries a
\* tag of the configuration.
C15_WitnessUntyped ==
    /\ output_file.written
    /\ options.pipeline_type = "None"
    /\ \E i \in DOMAIN pipeline_gen : pipeline_gen[i] \in TagSections
    /\ \E k \in DOMAIN built :
        /\ get_job_name(k) \in DOMAIN output_file.doc
        /\ GetItem(output_file.doc[get_job_name(k)], "tags", List(<<>>)).e # <<>>

\* --------------------------------------------------------- claims: script
\* The IR attributes of the job of node k.
AttributesOf(k) == jobs[SpecJob(k)].attributes

\* C16 as stated: a document is written only when the attributes of every
\* surviving node have a script, and every build job in it has one.
C16_Original ==
    output_file.written =>
        /\ \A k \in nodes : HasKey(AttributesOf(k).e, "script")
        /\ \A k \in EmittedBuildJobs :
            HasKey(output_file.doc[get_job_name(k)].e, "script")

\* C16: emission of a pipeline that is not copy-only ends without an error
\* only when the attributes of every surviving node either are empty or have a
\* script; the error for attributes without a script is an AttributeError; a
\* node with empty attributes has no job in the document, and every build job
\* in a written document has a script.
C16_ScriptOrEmptyOrError ==
    /\ (pc = "emitted" /\ options.pipeline_type # "COPY_ONLY") =>
            \A k \in nodes :
                /\ AttributesOf(k).e = <<>> \/ HasKey(AttributesOf(k).e, "script")
                /\ AttributesOf(k).e = <<>> => get_job_name(k) \notin DOMAIN output_file.doc
    /\ error = "AttributeError" =>
            /\ ~output_file.written
            /\ \E k \in nodes :
                AttributesOf(k).e # <<>> /\ ~HasKey(AttributesOf(k).e, "script")
    /\ output_file.written =>
            \A k \in EmittedBuildJobs :
                HasKey(output_file.doc[get_job_name(k)].e, "script")

\* C16 witness: emission ended with an AttributeError on a node whose
\* attributes hold tags and no script.
C16_Witness ==
    /\ pc = "emit_error"
    /\ error = "AttributeError"
    /\ \E k \in nodes :
        HasKey(AttributesOf(k).e, "tags") /\ ~HasKey(AttributesOf(k).e, "script")

\* C16 witness of the skip: a document with a build job has been written
\* while a surviving node has empty attributes.
C16_WitnessSkipped ==
    /\ pc = "emitted"
    /\ options.pipeline_type # "COPY_ONLY"
    /\ EmittedBuildJobs # {}
    /\ \E k \in nodes : AttributesOf(k).e = <<>>

\* ------------------------------------------------ generate_ir: dynamic mapping
\* A dynamic-mapping section of pipeline-gen: whether its name matches
\* SPACK_CI_SKIP_DYNAMIC_MAPPING, and the keys of its require, allow and
\* ignore lists.
DynamicMappingSection(skipped, required, allowed, ignored) ==
    [kind |-> "dynamic", skip |-> skipped, header |-> Dict(<<>>),
     require |-> required, allow |-> allowed, ignore |-> ignored]

\* os.environ, and os.path.expandvars(value): every reference to a variable
\* of the environment gives way to the variable's value.
environ == [ref \in {"$GANTRY_TOKEN"} |-> "s3cr3t"]
expandvars(value) ==
    Str([i \in DOMAIN value.e |->
            IF value.e[i] \in DOMAIN environ THEN environ[value.e[i]] ELSE value.e[i]])

\* header.update(mapping.get("header", {}))
RECURSIVE Update(_, _)
Update(d, entries) ==
    IF entries = <<>> THEN d
    ELSE Update(SetItem(d, Head(entries).k, Head(entries).v), Tail(entries))

\* The headers of the requests of a section: the User-Agent, then the
\* section's own; `for value in header.values(): value =
\* os.path.expandvars(value)` binds the expansion of each value to the name
\* of the loop and leaves the dict as it was.
RequestHeader(section) ==
    LET header == Update(Dict(<<Entry("User-Agent", "merge", Str(<<"Spackbot">>))>>),
                         section.header.e)
        value == [i \in DOMAIN header.e |-> expandvars(header.e[i].v)]
    IN  header

\* sorted(set(keys)), over the keys that responses and sections use.
ResponseKeys == <<"image", "tags", "variables">>
SortedKeys(S) == SelectSeq(ResponseKeys, LAMBDA key : key \in S)

\* What a request can come to: _dyn_mapping_urlopener raises (an error of the
\* connection, a timeout); or it returns a response whose body is not JSON,
\* a JSON object, or a JSON array.
UrlError == [kind |-> "error", config |-> None]
NotJson == [kind |-> "text", config |-> None]
Json(value) == [kind |-> "json", config |-> value]
Outcomes ==
    {UrlError, NotJson,
     Json(Dict(<<Entry("tags", "merge", List(<<Str(<<"dyn">>)>>)),
                 Entry("image", "merge", Str(<<"img">>))>>)),
     Json(Dict(<<Entry("variables", "merge",
                    Dict(<<Entry("KUBERNETES_CPU_REQUEST", "merge", Num(1))>>))>>)),
     Json(Dict(<<Entry("image", "merge", Str(<<"img">>)),
                 Entry("retry", "merge", Num(2))>>)),
     Json(List(<<Str(<<"busy">>)>>))}

\* The loop body without the stripping of the ignored keys.
LookupJob_KeepIgnored(attributes, section, outcome) ==
    LET config == outcome.config
        allowed == SortedKeys(section.allow \cup section.require)
        ignored == SortedKeys(section.ignore)
        config_has(key) == IF config.t = "dict" THEN HasKey(config.e, key)
                           ELSE InSeq(Str(<<key>>), config.e)
        stripped == config
        kept == SelectSeq(allowed, LAMBDA key : HasKey(stripped.e, key))
        clean_config ==
            IF allowed # <<>>
            THEN Dict([i \in DOMAIN kept |->
                          Entry(kept[i], "merge", Lookup(stripped.e, kept[i]))])
            ELSE IF config.t = "dict" THEN stripped ELSE config
    IN  IF outcome.kind = "error" THEN [error |-> "none", attributes |-> attributes]
        ELSE IF outcome.kind = "text"
        THEN [error |-> "JSONDecodeError", attributes |-> attributes]
        ELSE IF config.t # "dict"
                /\ \E i \in DOMAIN ignored \cup DOMAIN allowed :
                      \/ i \in DOMAIN ignored /\ config_has(ignored[i])
                      \/ i \in DOMAIN allowed /\ config_has(allowed[i])
        THEN [error |-> "TypeError", attributes |-> attributes]
        ELSE IF config.t # "dict" /\ allowed # <<>>
        THEN [error |-> "none", attributes |-> attributes]
        ELSE IF clean_config.e = <<>>
        THEN [error |-> "none", attributes |-> attributes]
        ELSE [error |-> "none",
              attributes |-> merge_yaml(attributes, clean_config, FALSE, FALSE)]

\* The loop body after the request for one job, on the job's attributes: the
\* exception that ends generate_ir, or the attributes the job is left with.
LookupJob(attributes, section, outcome) ==
    LET config == outcome.config
        allowed == SortedKeys(section.allow \cup section.require)
        ignored == SortedKeys(section.ignore)
        config_has(key) == IF config.t = "dict" THEN HasKey(config.e, key)
                           ELSE InSeq(Str(<<key>>), config.e)
        stripped == Dict(SelectSeq(config.e, LAMBDA en : en.k \notin section.ignore))
        kept == SelectSeq(allowed, LAMBDA key : HasKey(stripped.e, key))
        clean_config ==
            IF allowed # <<>>
            THEN Dict([i \in DOMAIN kept |->
                          Entry(kept[i], "merge", Lookup(stripped.e, kept[i]))])
            ELSE IF config.t = "dict" THEN stripped ELSE config
    IN  IF outcome.kind = "error" THEN [error |-> "none", attributes |-> attributes]
        ELSE IF outcome.kind = "text"
        THEN [error |-> "JSONDecodeError", attributes |-> attributes]
        ELSE IF config.t # "dict"
                /\ \E i \in DOMAIN ignored \cup DOMAIN allowed :
                      \/ i \in DOMAIN ignored /\ config_has(ignored[i])
                      \/ i \in DOMAIN allowed /\ config_has(allowed[i])
        THEN [error |-> "TypeError", attributes |-> attributes]
        ELSE IF config.t # "dict" /\ allowed # <<>>
        THEN [error |-> "none", attributes |-> attributes]
        ELSE IF clean_config.e = <<>>
        THEN [error |-> "none", attributes |-> attributes]
        ELSE [error |-> "none",
              attributes |-> merge_yaml(attributes, clean_config, FALSE, FALSE)]

\* The keys traverse_nodes(direction) yields, in order: the order in which
\* init_pipeline_jobs puts the build jobs into ir["jobs"].
RECURSIVE Drain(_, _, _)
Drain(q, nie, oe) ==
    IF q = <<>> THEN <<>>
    ELSE LET item == q[Len(q)]
             r == ReleaseOut(oe[item[2]], nie, SubSeq(q, 1, Len(q) - 1), item[1])
         IN  <<item[2]>> \o Drain(r[2], r[1], oe)
TraversalOrder(d) ==
    Drain(SortedByKey({k \in nodes : get_in_edges(d, k) = {}}),
          [k \in nodes |-> Cardinality(get_in_edges(d, k))],
          CHOOSE oe \in OutEdgeChoices(d, nodes) : TRUE)

\* for job in jobs.values(): the requests of section i for the build jobs
\* that are left, on st = [jobs, requests, error].
RECURSIVE DynLookups(_, _, _, _, _)
DynLookups(st, section, i, order, responses) ==
    IF order = <<>> \/ st.error # "none" THEN st
    ELSE LET k == Head(order)
             outcome == responses[<<i, k>>]
             r == LookupJob(st.jobs[SpecJob(k)].attributes, section, outcome)
             st1 == [jobs |-> [st.jobs EXCEPT ![SpecJob(k)].attributes = r.attributes],
                     requests |-> Append(st.requests,
                                    [section |-> i, job |-> k, outcome |-> outcome,
                                     headers |-> RequestHeader(section)]),
                     error |-> r.error]
         IN  DynLookups(st1, section, i, Tail(order), responses)

\* The dynamic-mapping branch with the check of require against ignore moved
\* behind the requests.
ApplyDynamicMapping_AssertLast(st, section, i, responses) ==
    IF section.skip THEN st
    ELSE LET after == DynLookups(st, section, i, TraversalOrder("children"), responses)
         IN  IF after.error = "none" /\ section.require \cap section.ignore # {}
             THEN [after EXCEPT !.error = "AssertionError"]
             ELSE after

\* The dynamic-mapping branch of generate_ir for section i of pipeline-gen.
ApplyDynamicMapping(st, section, i, responses) ==
    IF section.skip THEN st
    ELSE IF section.require \cap section.ignore # {}
    THEN [st EXCEPT !.error = "AssertionError"]
    ELSE DynLookups(st, section, i, TraversalOrder("children"), responses)

\* for section in reversed(pipeline_gen), over the user's sections i..1.
RECURSIVE ApplyWithLookups(_, _, _, _)
ApplyWithLookups(st, user, i, responses) ==
    IF i = 0 \/ st.error # "none" THEN st
    ELSE LET section == user[i]
             st1 == IF section.kind = "dynamic"
                    THEN ApplyDynamicMapping(st, section, i, responses)
                    ELSE [st EXCEPT !.jobs = ApplySection(@, section)]
         IN  ApplyWithLookups(st1, user, i - 1, responses)

\* generate_ir() with the outcomes of its requests: the defaults, the user's
\* sections, the overrides, and every job's spec replaced by its name; or the
\* exception that ended it, with the jobs as they were then.
generate_ir_lookups(js, user, responses) ==
    LET st0 == [jobs |-> ApplyReversed(js, defaults), requests |-> <<>>, error |-> "none"]
        st1 == ApplyWithLookups(st0, user, Len(user), responses)
        applied == ApplyReversed(st1.jobs, overrides)
    IN  IF st1.error # "none" THEN st1
        ELSE [st1 EXCEPT !.jobs =
                [j \in DOMAIN applied |->
                    IF applied[j].spec.kind = "spec"
                    THEN [applied[j] EXCEPT !.spec = SpecName(name[@.of])]
                    ELSE applied[j]]]

\* generate_ir(), each request coming to one of the outcomes.
GenerateIRWithLookups ==
    /\ pc = "jobs"
    /\ \E responses \in [(DOMAIN pipeline_gen) \X nodes -> Outcomes] :
        LET r == generate_ir_lookups(jobs, pipeline_gen, responses)
        IN  /\ jobs' = r.jobs
            /\ requests' = r.requests
            /\ error' = r.error
            /\ pc' = IF r.error = "none" THEN "ir" ELSE "ir_error"
    /\ UNCHANGED <<dagVars, travVars, ppVars, mergeVars, pipeline_gen, options,
                   output_object, stage_names, job_id, output_file, manifest_file>>

\* Dynamic-mapping sections: with no lists; with require, allow and ignore
\* lists; with a key both required and ignored; the latter skipped by name;
\* with an ignore list alone; with headers, one of them a reference to a
\* variable of the environment.
PlainMapping == DynamicMappingSection(FALSE, {}, {}, {})
ListedMapping == DynamicMappingSection(FALSE, {"tags"}, {"variables"}, {"image"})
ConflictMapping == DynamicMappingSection(FALSE, {"tags"}, {}, {"tags", "image"})
SkippedMapping == DynamicMappingSection(TRUE, {"tags"}, {}, {"tags"})
IgnoreMapping == DynamicMappingSection(FALSE, {}, {}, {"image"})
TokenMapping ==
    [PlainMapping EXCEPT !.header =
        Dict(<<Entry("PRIVATE-TOKEN", "merge", Str(<<"$GANTRY_TOKEN">>)),
               Entry("Accept", "merge", Str(<<"application/json">>))>>)]

\* The user's pipeline-gen lists with dynamic mapping.
DynConfigs ==
    {<<PlainMapping>>, <<ListedMapping>>, <<ConflictMapping>>, <<SkippedMapping>>,
     <<ConflictMapping, PlainMapping>>, <<PlainMapping, ConflictMapping>>,
     <<ListedMapping, PlainMapping>>, <<IgnoreMapping>>, <<TokenMapping>>}

\* A pipeline of two specs, the first depending on the second, has been
\* built.
DynInit ==
    /\ nodes = {1, 2}
    /\ children = <<{2}, {}>>
    /\ parents = <<{}, {1}>>
    /\ built = children
    /\ name = <<1, 2>>
    /\ pruned = {}
    /\ InitTrav
    /\ InitPrunePipeline
    /\ InitNoMerge
    /\ InitNoConfig
    /\ pc = "idle"

NextDynMap ==
    \/ \E user \in DynConfigs : NewConfig(user)
    \/ InitPipelineJobs
    \/ GenerateIRWithLookups

SpecDynMap == DynInit /\ [][NextDynMap]_vars

\* ------------------------------------------------ claims: dynamic mapping
\* The jobs as init_pipeline_jobs left them, and a lookup that did not
\* deliver a JSON object.
JobsAsInitialised ==
    [j \in DOMAIN jobs |-> init_job(IF j[1] = "spec" THEN TheSpec(j[2]) ELSE NoSpec)]
Unusable(outcome) == outcome.kind # "json" \/ outcome.config.t # "dict"
RequestsOf(i) == {n \in DOMAIN requests : requests[n].section = i}

\* C18 as stated: when generate_ir is over and a lookup has failed (the
\* request raised, or the response was not a JSON object), generate_ir has
\* returned, every build job was looked up for the section, and the job of
\* the failed lookup has the attributes it has without the section.
C18_Original ==
    (pc \in {"ir", "ir_error"} /\ error # "AssertionError") =>
        \A n \in DOMAIN requests :
            Unusable(requests[n].outcome) =>
                /\ pc = "ir"
                /\ \A k \in nodes :
                    \E m \in RequestsOf(requests[n].section) : requests[m].job = k
                /\ Len(pipeline_gen) = 1 =>
                    jobs[SpecJob(requests[n].job)].attributes
                        = generate_ir(JobsAsInitialised, <<>>)[SpecJob(requests[n].job)].attributes

\* The dynamic-mapping sections of the user's list whose require and ignore
\* lists share a key.
Conflicting ==
    {i \in DOMAIN pipeline_gen :
        /\ pipeline_gen[i].kind = "dynamic"
        /\ pipeline_gen[i].require \cap pipeline_gen[i].ignore # {}}

\* C19 as stated: when generate_ir is over and a dynamic-mapping section has
\* a key both required and ignored, generate_ir has raised and no request of
\* the section has been sent.
C19_Original ==
    pc \in {"ir", "ir_error"} =>
        \A i \in Conflicting : pc = "ir_error" /\ RequestsOf(i) = {}

\* C19: when generate_ir is over, a dynamic-mapping section with a key both
\* required and ignored that is not skipped by its name has made generate_ir
\* raise, an AssertionError unless a lookup of a section declared after it
\* raised first, with no request sent for the section or for a section
\* declared before it; a skipped section has sent no request.
C19_ConflictRaisesBeforeRequests ==
    pc \in {"ir", "ir_error"} =>
        \A i \in Conflicting :
            IF pipeline_gen[i].skip THEN RequestsOf(i) = {}
            ELSE /\ pc = "ir_error"
                 /\ \A n \in DOMAIN requests : requests[n].section > i
                 /\ \/ error = "AssertionError"
                    \/ \E n \in DOMAIN requests : Unusable(requests[n].outcome)

\* C19 witness: generate_ir raised the AssertionError of a section after the
\* requests of the section declared after it had been sent.
C19_Witness ==
    /\ pc = "ir_error"
    /\ error = "AssertionError"
    /\ \E i \in Conflicting : ~pipeline_gen[i].skip /\ RequestsOf(i + 1) # {}

\* C19 witness of the skip: generate_ir returned although a section has a key
\* both required and ignored.
C19_WitnessSkipped ==
    pc = "ir" /\ \E i \in Conflicting : pipeline_gen[i].skip

\* --------------------------------------------------- runs that end in errors
\* generate_pipeline between prune_pipeline and SpackCIConfig(ci_config): with
\* options.broken_specs_url set and a pipeline that is not copy-only, a spec
\* of the pipeline under the url ends the run unless everything is rebuilt.
BrokenSpecsAbort(opts, broken_spec_urls, rebuild_everything) ==
    /\ pc = "idle"
    /\ opts.pipeline_type # "COPY_ONLY"
    /\ broken_spec_urls \cap nodes # {}
    /\ ~rebuild_everything
    /\ options' = opts
    /\ error' = "SpackCIError"
    /\ pc' = "generate_error"
    /\ UNCHANGED <<dagVars, travVars, ppVars, mergeVars, pipeline_gen, jobs, requests,
                   output_object, stage_names, job_id, output_file, manifest_file>>

\* The pipelines of runs that can end in an error: of no type, for a protected
\* branch and copy-only, with and without a mirror named buildcache-source,
\* with and without SPACK_COPY_BUILDCACHE.
AbortOptions ==
    {[pipeline_type |-> ty, rebuild_index |-> FALSE, mirrors_for_spec |-> FALSE,
      buildcache_source |-> src, copy_buildcache |-> cp] :
        ty \in {"None", "PROTECTED_BRANCH", "COPY_ONLY"}, src \in BOOLEAN, cp \in BOOLEAN}

\* Their pipeline-gen lists: empty, one that leaves the specs of a package
\* without script, one with a key both required and ignored.
AbortConfigs == {<<>>, <<RemoveScriptOfPackage>>, <<ConflictMapping>>}

AbortInit == DynInit

NextAbort ==
    \/ \E node_key \in Keys : Prune(node_key)
    \/ \E opts \in AbortOptions, broken_spec_urls \in SUBSET Keys :
        BrokenSpecsAbort(opts, broken_spec_urls, FALSE)
    \/ \E user \in AbortConfigs : NewConfig(user)
    \/ InitPipelineJobs
    \/ GenerateIRWithLookups
    \/ \E opts \in AbortOptions : EmitStart(opts)
    \/ EmitJob
    \/ EmitFinish

SpecAbort == AbortInit /\ [][NextAbort]_vars

\* ------------------------------------------------------- claims: the abort
\* C17 as stated: when the run has ended in one of the fatal conditions (a
\* missing mirror, a job without script, a key both required and ignored, a
\* broken spec), neither the document nor the manifest has been written.
C17_Original ==
    (pc \in {"generate_error", "ir_error", "emit_error"}
        /\ error \in {"SpackCIError", "AttributeError", "AssertionError"}) =>
            ~output_file.written /\ ~manifest_file.written

\* ------------------------------------------------------ claims: no-op job
\* The jobs of the written document: its keys but workflow, stages and
\* variables.
JobsOfDocument == DOMAIN output_file.doc \ {"workflow", "stages", "variables"}

\* The no-op job is in the document, with retry 0 and allow_failure true.
NoopJobAlone ==
    /\ JobsOfDocument = {"no-specs-to-rebuild"}
    /\ LET noop_job == output_file.doc["no-specs-to-rebuild"]
       IN  /\ HasKey(noop_job.e, "retry")
           /\ Lookup(noop_job.e, "retry") = Num(0)
           /\ HasKey(noop_job.e, "allow_failure")
           /\ Lookup(noop_job.e, "allow_failure") = Bool(TRUE)

\* C20 as stated: emission of a pruned graph without nodes does not end in an
\* error, and the document it writes has the no-op job as its only job, with
\* retries disabled and failure allowed.
C20_Original ==
    nodes = {} =>
        /\ pc # "emit_error"
        /\ pc = "emitted" => output_file.written /\ NoopJobAlone

\* C20: emission of a pipeline that is not copy-only, for a pruned graph
\* without nodes, does not end in an error, and the document it writes has
\* the no-op job as its only job, with retries disabled and failure allowed.
C20_NoopJobWhenNothingToBuild ==
    (nodes = {} /\ pc \in {"emitting", "emit_error", "emitted"}
        /\ options.pipeline_type # "COPY_ONLY") =>
            /\ pc # "emit_error"
            /\ pc = "emitted" => output_file.written /\ NoopJobAlone

\* C20 witness: every node of a graph has been pruned and the document of a
\* pipeline that is not copy-only has been written.
C20_Witness ==
    /\ pc = "emitted"
    /\ nodes = {}
    /\ pruned # {}
    /\ options.pipeline_type # "COPY_ONLY"
    /\ output_file.written

\* ------------------------------------------------ pipelines with signing
\* Pipeline-gen lists for the signing job: none; a script; an empty script;
\* tags alone; a script that a section declared before it removes again.
SigningScript == List(<<Str(<<"sign">>)>>)
SigningConfigs ==
    {<<>>,
     <<MergeSection("signing", Dict(<<Entry("script", "merge", SigningScript)>>))>>,
     <<MergeSection("signing", Dict(<<Entry("script", "merge", List(<<>>))>>))>>,
     <<MergeSection("signing", Dict(<<Entry("tags", "merge", List(<<Str(<<"hsm">>)>>))>>))>>,
     <<RemoveSection("signing", Dict(<<Entry("script", "override", List(<<>>))>>)),
       MergeSection("signing", Dict(<<Entry("script", "merge", SigningScript)>>))>>}

\* The pipelines of every type but copy-only, with and without the index job.
SigningOptions ==
    {[pipeline_type |-> ty, rebuild_index |-> ri, mirrors_for_spec |-> FALSE,
      buildcache_source |-> FALSE, copy_buildcache |-> FALSE] :
        ty \in {"None", "PROTECTED_BRANCH", "PULL_REQUEST"}, ri \in BOOLEAN}

SigningInit == DynInit

NextSigning ==
    \/ \E node_key \in Keys : Prune(node_key)
    \/ \E user \in SigningConfigs : NewConfig(user)
    \/ InitPipelineJobs
    \/ GenerateIR
    \/ \E opts \in SigningOptions : EmitStart(opts)
    \/ EmitJob
    \/ EmitFinish

SpecSigning == SigningInit /\ [][NextSigning]_vars

\* -------------------------------------------------------- claims: signing
\* The stages of the written document, and the positions of a stage in them.
StagesOfDocument ==
    IF "stages" \in DOMAIN output_file.doc THEN output_file.doc["stages"].e ELSE <<>>
PositionsOf(stage) ==
    {i \in DOMAIN StagesOfDocument : StagesOfDocument[i] = Str(<<stage>>)}

\* The user's sections that give the signing job a script.
SigningScriptSections ==
    {i \in DOMAIN pipeline_gen :
        /\ pipeline_gen[i].kind = "named"
        /\ pipeline_gen[i].name = "signing"
        /\ pipeline_gen[i].do_merge
        /\ HasKey(pipeline_gen[i].merge.e, "script")}

\* C21 as stated: the sign-pkgs job and its stage are in the written document
\* only in a protected-branch pipeline one of whose sections gave the signing
\* job a script that is not empty, and the signing stage then comes after
\* every build stage.
C21_Original ==
    (output_file.written
        /\ ("sign-pkgs" \in DOMAIN output_file.doc \/ PositionsOf("stage-sign-pkgs") # {})) =>
            /\ options.pipeline_type = "PROTECTED_BRANCH"
            /\ \E i \in SigningScriptSections :
                Lookup(pipeline_gen[i].merge.e, "script").e # <<>>
            /\ \A n \in 0..MaxNodes :
                \A a \in PositionsOf("stage-" \o ToString(n)),
                   b \in PositionsOf("stage-sign-pkgs") : a < b

\* C21: the sign-pkgs job and its stage are in the written document together
\* or not at all, and only in a protected-branch pipeline one of whose
\* sections gave the signing job a script, empty or not; the signing stage
\* then comes after every build stage.
C21_SigningOnlyProtectedWithScript ==
    output_file.written =>
        /\ ("sign-pkgs" \in DOMAIN output_file.doc) = (PositionsOf("stage-sign-pkgs") # {})
        /\ "sign-pkgs" \in DOMAIN output_file.doc =>
            /\ options.pipeline_type = "PROTECTED_BRANCH"
            /\ SigningScriptSections # {}
            /\ \A n \in 0..MaxNodes :
                \A a \in PositionsOf("stage-" \o ToString(n)),
                   b \in PositionsOf("stage-sign-pkgs") : a < b

\* C21 witness: a document with the signing job and build jobs in two stages
\* has been written.
C21_Witness ==
    /\ output_file.written
    /\ "sign-pkgs" \in DOMAIN output_file.doc
    /\ PositionsOf("stage-0") # {}
    /\ PositionsOf("stage-1") # {}

\* C21 witness of the empty script: the signing job of the written document
\* has no commands.
C21_WitnessEmptyScript ==
    /\ output_file.written
    /\ "sign-pkgs" \in DOMAIN output_file.doc
    /\ Lookup(output_file.doc["sign-pkgs"].e, "script").e = <<>>

\* ------------------------------------------------------ broken specs check
\* web_util.list_url(broken_specs_url) of a url that can be listed or not.
NotListed == [listed |-> FALSE, hashes |-> {}]
Listed(hashes) == [listed |-> TRUE, hashes |-> hashes]

\* check_for_broken_specs against every spec of the environment.
check_for_broken_specs_AllSpecs(pipeline_specs, broken_specs_url, url_list) ==
    /\ broken_specs_url # "http"
    /\ url_list.listed
    /\ DOMAIN built \cap url_list.hashes # {}

\* check_for_broken_specs(pipeline_specs, broken_specs_url): an http(s) url
\* is ignored, a url that cannot be listed gives False, and otherwise some
\* hash of the pipeline's specs is among the urls listed.
check_for_broken_specs(pipeline_specs, broken_specs_url, url_list) ==
    /\ broken_specs_url # "http"
    /\ url_list.listed
    /\ pipeline_specs \cap url_list.hashes # {}

\* The options generate_pipeline reads for the check: the pipeline type, the
\* two pruning flags, broken_specs_url (unset, an http(s) url, another url)
\* and, for the model, the hashes under the url and whether it can be listed.
BrokenOptions ==
    [pipeline_type : PipelineType \cup {"None"},
     prune_up_to_date : BOOLEAN, prune_untouched : BOOLEAN,
     broken_specs_url : {"unset", "http", "s3"},
     known_broken : SUBSET Keys, listable : BOOLEAN]

\* generate_pipeline from the end of prune_pipeline to the call of
\* SpackCIConfig(ci_config): the specs left are checked against the broken
\* specs, and the run is over when one is found and not everything is rebuilt.
BrokenSpecsCheck(opts) ==
    /\ pc = "idle"
    /\ LET rebuild_everything == ~opts.prune_up_to_date /\ ~opts.prune_untouched
           pipeline_specs == nodes
           url_list == IF opts.listable THEN Listed(opts.known_broken) ELSE NotListed
           broken == /\ opts.broken_specs_url # "unset"
                     /\ opts.pipeline_type # "COPY_ONLY"
                     /\ check_for_broken_specs(pipeline_specs, opts.broken_specs_url, url_list)
       IN  IF broken /\ ~rebuild_everything
           THEN error' = "SpackCIError" /\ pc' = "generate_error"
           ELSE error' = "none" /\ pc' = "checked"
    /\ options' = opts
    /\ UNCHANGED <<dagVars, travVars, ppVars, mergeVars, pipeline_gen, jobs, requests,
                   output_object, stage_names, job_id, output_file, manifest_file>>

BrokenInit == DynInit

NextBroken ==
    \/ \E node_key \in Keys : Prune(node_key)
    \/ \E opts \in BrokenOptions : BrokenSpecsCheck(opts)

SpecBroken == BrokenInit /\ [][NextBroken]_vars

C22_WitnessAbort ==
    pc = "generate_error" /\ pruned # {}

\* ----------------------------------------------------- claims: error type
\* C23 as stated: a run that one of the fatal conditions has ended (a missing
\* mirror, a job without script, a key both required and ignored, a broken
\* spec) has ended with the one error type of the engine, SpackCIError.
C23_Original ==
    (pc \in {"generate_error", "ir_error", "emit_error"}
        /\ error \notin {"JSONDecodeError", "TypeError", "KeyError"}) =>
            error = "SpackCIError"

\* ------------------------------------------------- claims: frame of emission
\* The IR as generate_ir returned it: generate_ir on the jobs as initialised.
ReturnedIR == generate_ir(JobsAsInitialised, pipeline_gen)

\* C24 as stated: when generate_gitlab_yaml has written the document, every
\* job of the IR has the attributes generate_ir returned it with, and the
\* graph has the nodes and edges it had.
C24_Original ==
    pc = "emitted" =>
        /\ \A j \in DOMAIN jobs : jobs[j].attributes = ReturnedIR[j].attributes
        /\ nodes = DOMAIN built \ pruned
        /\ \A k \in nodes : children[k] \subseteq nodes

\* ------------------------------------------------- claims: order of prunes
\* The survivors a survivor u reaches in the graph as built along a path whose
\* inner nodes have all been pruned.
ThroughPruned(u) ==
    LET inner == [k \in DOMAIN built |-> IF k \in pruned THEN built[k] ELSE {}]
    IN  (built[u] \cup ReachFrom(inner, built[u], {})) \cap nodes

\* C25: after the nodes of a set have been pruned one at a time, in whatever
\* order, the graph is the one that the built graph and the set determine:
\* the surviving nodes, and for every survivor as children the survivors it
\* reached through pruned nodes alone, and as parents the survivors that so
\* reached it.
C25_PruneOrderIndependent ==
    /\ nodes = DOMAIN built \ pruned
    /\ \A u \in nodes :
        /\ children[u] = ThroughPruned(u)
        /\ parents[u] = {p \in nodes : u \in ThroughPruned(p)}

\* C25 witness: two nodes joined by an edge have both been pruned, and a
\* survivor had an edge to or from one of them.
C25_Witness ==
    /\ \E p1, p2 \in pruned : p2 \in built[p1]
    /\ \E u \in nodes : built[u] \cap pruned # {} \/ \E p \in pruned : u \in built[p]

\* C25 witness of the two orders: the same two nodes are pruned, and either
\* may have been the last.
C25_WitnessTwoPruned ==
    Cardinality(pruned) = 2 /\ nodes # {} /\ \E u \in nodes : children[u] # built[u]

\* ------------------------------------- claims: keys of a dynamic mapping
\* The keys of the responses, and whether attributes hold the value that the
\* responses give a key.
DynKeys == {"image", "tags", "variables", "retry"}
Carries(attributes, key) ==
    /\ attributes.t = "dict"
    /\ HasKey(attributes.e, key)
    /\ LET value == Lookup(attributes.e, key)
       IN  CASE key = "image" -> value = Str(<<"img">>)
             [] key = "tags" -> value.t = "list" /\ InSeq(Str(<<"dyn">>), value.e)
             [] key = "variables" ->
                    value.t = "dict" /\ HasKey(value.e, "KUBERNETES_CPU_REQUEST")
             [] OTHER -> value = Num(2)

\* Request n was answered by a JSON object with the key, and the key is not
\* in the ignore list of its section and is in the union of its allow and
\* require lists unless the union is empty.
Admits(n, key) ==
    LET section == pipeline_gen[requests[n].section]
        outcome == requests[n].outcome
    IN  /\ outcome.kind = "json"
        /\ outcome.config.t = "dict"
        /\ HasKey(outcome.config.e, key)
        /\ key \notin section.ignore
        /\ section.allow \cup section.require # {} =>
              key \in section.allow \cup section.require

\* C26: when generate_ir is over, a job's attributes hold the value of a
\* response for a key only if a response to a request for the job had the
\* key, the key is not in the ignore list of the section, and the key is in
\* the union of allow and require when the union is not empty; and they do
\* hold it for every such key of every JSON object received for the job,
\* whether or not a required key was missing from the object, as long as no
\* JSON array was received for the job.
C26_MergedKeysFiltered ==
    pc \in {"ir", "ir_error"} =>
        \A k \in nodes : \A key \in DynKeys :
            LET mine == {n \in DOMAIN requests : requests[n].job = k}
                attributes == jobs[SpecJob(k)].attributes
            IN  /\ Carries(attributes, key) => \E n \in mine : Admits(n, key)
                /\ (/\ \E n \in mine : Admits(n, key)
                    /\ \A m \in mine : requests[m].outcome.kind = "json" =>
                          requests[m].outcome.config.t = "dict")
                   => Carries(attributes, key)

\* C26 witness: generate_ir returned; a section that requires tags, allows
\* variables and ignores image was answered, for one job, by an object with
\* variables and no tags, and for another by an object with tags and image;
\* the first job has the variables and the second the tags without the image.
C26_Witness ==
    /\ pc = "ir"
    /\ pipeline_gen = <<ListedMapping>>
    /\ \E n \in DOMAIN requests :
        /\ Admits(n, "variables")
        /\ ~HasKey(requests[n].outcome.config.e, "tags")
        /\ Carries(jobs[SpecJob(requests[n].job)].attributes, "variables")
    /\ \E n \in DOMAIN requests :
        /\ Admits(n, "tags")
        /\ HasKey(requests[n].outcome.config.e, "image")
        /\ Carries(jobs[SpecJob(requests[n].job)].attributes, "tags")
        /\ ~Carries(jobs[SpecJob(requests[n].job)].attributes, "image")

\* C26 witness of an ignore list alone: a section that only ignores image was
\* answered by an object with image and a key that no list names, and the
\* job has the latter without the image.
C26_WitnessIgnoreOnly ==
    /\ pc = "ir"
    /\ pipeline_gen = <<IgnoreMapping>>
    /\ \E n \in DOMAIN requests :
        /\ Admits(n, "retry")
        /\ HasKey(requests[n].outcome.config.e, "image")
        /\ Carries(jobs[SpecJob(requests[n].job)].attributes, "retry")
        /\ ~Carries(jobs[SpecJob(requests[n].job)].attributes, "image")

\* ------------------------------------------------ generate_ir: submapping
\* The rules a submapping section can have at position i: one that sets the
\* image and adds a tag, and one that removes the image and adds the tag,
\* both marked with i, for the specs of package 1, of package 2 (named
\* twice), of either, or of a package that is not in the pipeline.
MaxRules == 3
RuleMark(i) == Str(<<"r" \o ToString(i)>>)
RuleMatches == {<<1>>, <<2, 2>>, <<1, 2>>, <<3>>}
RulesAt(i) ==
    {MatchAttrs(m, TRUE, Dict(<<Entry("tags", "merge", List(<<RuleMark(i)>>)),
                                Entry("image", "merge", RuleMark(i))>>),
                FALSE, Dict(<<>>)) : m \in RuleMatches}
    \cup
    {MatchAttrs(m, TRUE, Dict(<<Entry("tags", "merge", List(<<RuleMark(i)>>))>>),
                TRUE, Dict(<<Entry("image", "override", Str(<<>>))>>)) : m \in RuleMatches}
RuleLists ==
    UNION {{r \in [1..n -> UNION {RulesAt(i) : i \in 1..n}] :
                \A i \in 1..n : r[i] \in RulesAt(i)} : n \in 1..MaxRules}
SubmapConfigs ==
    {<<SubmappingSection(behavior, rules)>> :
        behavior \in {Absent, "first", "merge"}, rules \in RuleLists}

SubmapInit == DynInit

NextSubmap ==
    \/ \E user \in SubmapConfigs : NewConfig(user)
    \/ InitPipelineJobs
    \/ GenerateIR

SpecSubmap == SubmapInit /\ [][NextSubmap]_vars

\* ------------------------------------------------------ claims: submapping
\* The rules of a section that the spec of node k matches, and the order in
\* which they are to be applied: from the last declared to the first, and
\* under match_behavior "first" only the last declared.
MatchingRules(k, section) ==
    {i \in DOMAIN section.submapping :
        \E m \in DOMAIN section.submapping[i].match :
            name[k] = section.submapping[i].match[m]}
RECURSIVE Descending(_)
Descending(S) ==
    IF S = {} THEN <<>>
    ELSE LET top == CHOOSE x \in S : \A y \in S : y <= x
         IN  <<top>> \o Descending(S \ {top})
RulesToApply(k, section) ==
    LET all == Descending(MatchingRules(k, section))
    IN  IF section.match_behavior \in {Absent, "first"} /\ all # <<>>
        THEN <<Head(all)>> ELSE all

\* Each rule of the list applied once: its build-job-remove, then its
\* build-job.
RECURSIVE ApplyEach(_, _, _)
ApplyEach(d, rules, order) ==
    IF order = <<>> THEN d
    ELSE LET rule == rules[Head(order)]
             removed == IF rule.do_remove THEN remove_yaml(d, rule.remove) ELSE d
             both == IF rule.do_merge
                       THEN merge_yaml(removed, rule.merge, FALSE, FALSE) ELSE removed
         IN  ApplyEach(both, rules, Tail(order))

\* The jobs generate_ir returns when the one section the user declares, a
\* submapping, does to every build job what RulesToApply says and nothing to
\* the other jobs.
SubmappedAsClaimed ==
    LET section == pipeline_gen[1]
        before == ApplyReversed(JobsAsInitialised, defaults)
        after == [j \in DOMAIN before |->
                    IF j[1] = "spec"
                    THEN [before[j] EXCEPT !.attributes =
                            ApplyEach(@, section.submapping, RulesToApply(j[2], section))]
                    ELSE before[j]]
    IN  ApplyReversed(after, overrides)

\* C27: when generate_ir has returned for a configuration whose one section
\* is a submapping, every build job has the attributes it gets when the rules
\* its spec matches are applied once each from the last declared to the
\* first, only the last declared of them under match_behavior "first" or
\* without a match_behavior, and none when it matches none; and the other
\* jobs have the attributes that they have without the section.
C27_SubmappingRulesInReverse ==
    (pc = "ir" /\ Len(pipeline_gen) = 1 /\ pipeline_gen[1].kind = "submapping") =>
        \A j \in DOMAIN jobs : jobs[j].attributes = SubmappedAsClaimed[j].attributes

\* C27 witness of "first": generate_ir has returned for a section without a
\* match_behavior; a spec matches two rules that set the image, one of them
\* with two of its match strings, and its job has the image and the tag of
\* the last declared alone; another spec matches no rule.
C27_Witness ==
    /\ pc = "ir"
    /\ Len(pipeline_gen) = 1
    /\ pipeline_gen[1].kind = "submapping"
    /\ pipeline_gen[1].match_behavior = Absent
    /\ \E k \in nodes :
        LET hits == MatchingRules(k, pipeline_gen[1])
            attributes == jobs[SpecJob(k)].attributes.e
        IN  /\ Cardinality(hits) >= 2
            /\ \E i \in hits : pipeline_gen[1].submapping[i].match = <<2, 2>>
            /\ \A i \in hits : ~pipeline_gen[1].submapping[i].do_remove
            /\ \E top \in hits :
                /\ \A i \in hits : i <= top
                /\ HasKey(attributes, "image")
                /\ Lookup(attributes, "image") = RuleMark(top)
                /\ HasKey(attributes, "tags")
                /\ Lookup(attributes, "tags") = List(<<RuleMark(top)>>)
    /\ \E k \in nodes : MatchingRules(k, pipeline_gen[1]) = {}

\* C27 witness of the other behaviours: under match_behavior "merge" a spec
\* matches every rule of three, and its job has the three tags with the one
\* of the first declared rule, the last applied, in front, and its image.
C27_WitnessEveryMatch ==
    /\ pc = "ir"
    /\ Len(pipeline_gen) = 1
    /\ pipeline_gen[1].kind = "submapping"
    /\ pipeline_gen[1].match_behavior = "merge"
    /\ \E k \in nodes :
        LET attributes == jobs[SpecJob(k)].attributes.e
        IN  /\ MatchingRules(k, pipeline_gen[1]) = 1..3
            /\ HasKey(attributes, "tags")
            /\ Lookup(attributes, "tags") = List(<<RuleMark(1), RuleMark(2), RuleMark(3)>>)
            /\ HasKey(attributes, "image")
            /\ Lookup(attributes, "image") = RuleMark(1)

\* ------------------------------------------ generate_gitlab_yaml: scripts
\* The script sections a user gives the build jobs: a flat list, a list with
\* a nested list, and a command that has the placeholder twice.
FlatScript == List(<<Str(<<"cd ", "{env_dir}">>), Str(<<"make">>)>>)
NestedScript ==
    List(<<List(<<Str(<<"ls ", "{env_dir}">>), Str(<<"date">>)>>), Str(<<"make">>)>>)
TwiceScript == List(<<Str(<<"cp ", "{env_dir}", " ", "{env_dir}">>)>>)
ScriptValues == {FlatScript, NestedScript, TwiceScript}
ScriptEntries(key, value) ==
    IF value = None THEN <<>> ELSE <<Entry(key, "merge", value)>>
ScriptConfigs ==
    {<<MergeSection("build",
          Dict(<<Entry("script", "override", main)>>
               \o ScriptEntries("before_script", before)
               \o ScriptEntries("after_script", after)))>> :
        main \in ScriptValues,
        before \in ScriptValues \cup {None},
        after \in ScriptValues \cup {None}}

ScriptsInit == DynInit

NextScripts ==
    \/ \E node_key \in Keys : Prune(node_key)
    \/ \E user \in ScriptConfigs : NewConfig(user)
    \/ InitPipelineJobs
    \/ GenerateIR
    \/ \E opts \in SigningOptions : EmitStart(opts)
    \/ EmitJob
    \/ EmitFinish

SpecScripts == ScriptsInit /\ [][NextScripts]_vars

\* -------------------------------------------------------- claims: scripts
\* The commands of a section with the commands of a nested list in its
\* place, and a command with every placeholder replaced by the directory of
\* the environment.
RECURSIVE FlattenOnce(_)
FlattenOnce(cmds) ==
    IF cmds = <<>> THEN <<>>
    ELSE (IF Head(cmds).t = "list" THEN Head(cmds).e ELSE <<Head(cmds)>>)
         \o FlattenOnce(Tail(cmds))
Substituted(cmd) ==
    Str([i \in DOMAIN cmd.e |->
            IF cmd.e[i] = "{env_dir}" THEN rel_concrete_env_dir ELSE cmd.e[i]])
SubstitutedAll(cmds) == [i \in DOMAIN cmds |-> Substituted(cmds[i])]

\* The build jobs of the written document, and a section of one as
\* generate_ir returned it and as it was written.
WrittenBuildJobs == {k \in nodes : get_job_name(k) \in DOMAIN output_file.doc}
ReturnedSection(k, key) == Lookup(ReturnedIR[SpecJob(k)].attributes.e, key)
WrittenSection(k, key) == Lookup(output_file.doc[get_job_name(k)].e, key)
HasSection(k, key) == HasKey(ReturnedIR[SpecJob(k)].attributes.e, key)

\* C28 as stated: every build job of the written document has each of
\* script, before_script and after_script that generate_ir returned for it
\* as the list of its commands in their order, those of a nested list in its
\* place, with every placeholder of every command replaced.
C28_Original ==
    pc = "emitted" =>
        \A k \in WrittenBuildJobs :
            \A key \in {"script", "before_script", "after_script"} :
                HasSection(k, key) =>
                    /\ HasKey(output_file.doc[get_job_name(k)].e, key)
                    /\ WrittenSection(k, key)
                        = List(SubstitutedAll(FlattenOnce(ReturnedSection(k, key).e)))

\* C28: every build job of the written document has each of script,
\* before_script and after_script that generate_ir returned for it as the
\* list of its commands in their order, those of a nested list in its place;
\* every placeholder of the commands of script is replaced, and the commands
\* of before_script and after_script are written as they are.
C28_FlatScriptsPlaceholdersInScript ==
    pc = "emitted" =>
        \A k \in WrittenBuildJobs :
            /\ HasKey(output_file.doc[get_job_name(k)].e, "script")
            /\ WrittenSection(k, "script")
                = List(SubstitutedAll(FlattenOnce(ReturnedSection(k, "script").e)))
            /\ \A key \in {"before_script", "after_script"} :
                HasSection(k, key) =>
                    /\ HasKey(output_file.doc[get_job_name(k)].e, key)
                    /\ WrittenSection(k, key) = List(FlattenOnce(ReturnedSection(k, key).e))

\* C28 witness: a build job has been written whose script had a nested list
\* and whose before_script had a nested list with the placeholder; the
\* script is written flat with the directory, the before_script flat with
\* the placeholder.
C28_Witness ==
    /\ pc = "emitted"
    /\ \E k \in WrittenBuildJobs :
        /\ ReturnedSection(k, "script") = NestedScript
        /\ HasSection(k, "before_script")
        /\ ReturnedSection(k, "before_script") = NestedScript
        /\ WrittenSection(k, "script")
            = List(<<Str(<<"ls ", rel_concrete_env_dir>>), Str(<<"date">>), Str(<<"make">>)>>)
        /\ WrittenSection(k, "before_script")
            = List(<<Str(<<"ls ", "{env_dir}">>), Str(<<"date">>), Str(<<"make">>)>>)

\* C28 witness of the repeated placeholder: a written script has the
\* directory at both places of a command.
C28_WitnessTwice ==
    /\ pc = "emitted"
    /\ \E k \in WrittenBuildJobs :
        /\ ReturnedSection(k, "script") = TwiceScript
        /\ WrittenSection(k, "script")
            = List(<<Str(<<"cp ", rel_concrete_env_dir, " ", rel_concrete_env_dir>>)>>)

\* -------------------------------------------------------- claims: headers
\* C29 as stated: every request has been sent with the headers of its
\* section, each with the value that os.path.expandvars gives the configured
\* one.
C29_Original ==
    \A n \in DOMAIN requests :
        LET configured == pipeline_gen[requests[n].section].header.e
        IN  \A i \in DOMAIN configured :
                /\ HasKey(requests[n].headers.e, configured[i].k)
                /\ Lookup(requests[n].headers.e, configured[i].k)
                    = expandvars(configured[i].v)

\* ------------------------------------------- claims: the two loops of
\* prune_pipeline
\* C30: while the traversal of prune_pipeline is in progress no node has been
\* removed from the graph as built; a node is removed only once the traversal
\* is over, and then every node of the built graph is on exactly one of the
\* two lists and has a reason of every filter, in the order of the filters,
\* also behind a filter that voted against the rebuild.
C30_FiltersBeforePrunes ==
    /\ pc = "pp_traverse" => pruned = {} /\ nodes = DOMAIN built
    /\ pruned # {} => pc \in {"pp_prune", "pp_done"}
    /\ pc \in {"pp_prune", "pp_done"} =>
        /\ DOMAIN reasons = DOMAIN built
        /\ keys_to_prune \cup keys_to_rebuild = DOMAIN built
        /\ keys_to_prune \cap keys_to_rebuild = {}
        /\ pruned \subseteq keys_to_prune
        /\ \A k \in DOMAIN built :
            /\ Len(reasons[k]) = pruning_filters
            /\ \A i \in 1..pruning_filters : reasons[k][i][1] = i

\* C30 witness: prune_pipeline has returned with nodes pruned, and one of
\* them has the reason of the second filter, which voted for the rebuild,
\* behind that of the first, which voted against it.
C30_Witness ==
    /\ pc = "pp_done"
    /\ pruning_filters = 2
    /\ \E k \in pruned : reasons[k] = <<<<1, FALSE>>, <<2, TRUE>>>>
    /\ Cardinality(DOMAIN built) >= 2

\* C30 witness of the traversal: the last node is about to be visited, a
\* node visited before it is on the prune list, and the graph is as built.
C30_WitnessTraversing ==
    /\ pc = "pp_traverse"
    /\ Len(queue) = 1
    /\ keys_to_prune # {}
    /\ nodes = DOMAIN built

====
